---- MODULE Spec2Model ----
(***************************************************************************)
(* Tier 1 nonprofit vetting: the scoring engine (scoring.ts), the         *)
(* threshold validation (config.ts), the sector thresholds                 *)
(* (sector-thresholds.ts), the summaries (messages.ts), the ProPublica     *)
(* client with its rate limiter (propublica-client.ts) and the tools       *)
(* (tools.ts).                                                             *)
(*                                                                         *)
(* Representation of JavaScript values:                                    *)
(*   - a nullable number is a record: Num(n), NullV, UndefV or NaNV;       *)
(*   - expense ratios, the revenue-decline fraction and the compensation   *)
(*     ratio are carried in hundredths (0.70 is 70, 1.2 is 120);           *)
(*   - a tax period string is the sequence of its parts between dashes     *)
(*     (what String.split("-") returns), each part classified by what      *)
(*     Number() makes of it;                                               *)
(*   - a detail text is named by its template (its fixed words);           *)
(*   - the clock (Date.now()) and filing dates are day numbers; for the    *)
(*     rate limiter the clock counts ticks of which delayMs is DelayMs;    *)
(*   - EINs, URLs and error messages are the strings themselves.           *)
(***************************************************************************)
EXTENDS Integers, Sequences, FiniteSets, TLC

VARIABLES
    pc,          \* position of the harness: "ready" before a call, "done"
                 \* after; for the client, each caller's position ("idle",
                 \* "waiting", "released", "in flight", "returned")
    op,          \* name of the last operation applied ("none" before any)
    thresholds,  \* the VettingThresholds value t handed to the operation
    profile,     \* the NonprofitProfile handed to the operation
    filings,     \* the raw ProPublica990Filing list handed to the operation
    now,         \* Date.now(), as a day number (for the client, in ticks)
    args,        \* the other arguments of the call (score, flags, checks,
                 \* sector code), the thresholds resolved for the call, the
                 \* arrays the callers hold, or each caller's call of the
                 \* client or of a tool
    result,      \* what the operation returned (or the error it threw)
    heap         \* the next_steps arrays: those of VERDICT_CONFIG, then one
                 \* per array handed to a caller, each with its contents; for
                 \* the client, the ProPublicaClient object: the limiter's
                 \* chain and lastTime, the requests issued and in flight

vars == <<pc, op, thresholds, profile, filings, now, args, result, heap>>

----------------------------------------------------------------------------
(* JavaScript values *)

Num(n) == [kind |-> "number", val |-> n]
NullV == [kind |-> "null"]
UndefV == [kind |-> "undefined"]
NaNV == [kind |-> "NaN"]

\* variant: a falsy test (!x), which also takes the number 0 for missing
IsNullishOrZero(x) ==
    x.kind \in {"null", "undefined"} \/ (x.kind = "number" /\ x.val = 0)

\* x === undefined || x === null   (also x == null)
IsNullish(x) == x.kind \in {"null", "undefined"}

\* profile.latest_990?.field
OptField(latest, f) == IF latest.kind = "null" THEN UndefV ELSE latest[f]

----------------------------------------------------------------------------
(* Thresholds: config.ts *)

\* loadThresholds() with no environment variable set. The two compensation
\* thresholds read by detectRedFlags are not set by loadThresholds.
DefaultThresholds ==
    [ weight501c3Status |-> 30,
      weightYearsOperating |-> 15,
      weightRevenueRange |-> 20,
      weightOverheadRatio |-> 20,
      weightRecent990 |-> 15,
      yearsPassMin |-> 3,
      yearsReviewMin |-> 1,
      revenueFailMin |-> 50000,
      revenuePassMin |-> 100000,
      revenuePassMax |-> 10000000,
      revenueReviewMax |-> 50000000,
      expenseRatioPassMin |-> 70,
      expenseRatioPassMax |-> 100,
      expenseRatioHighReview |-> 120,
      expenseRatioLowReview |-> 50,
      filing990PassMax |-> 2,
      filing990ReviewMax |-> 3,
      scorePassMin |-> 80,
      scoreReviewMin |-> 50,
      redFlagStale990Years |-> 4,
      redFlagHighExpenseRatio |-> 120,
      redFlagLowExpenseRatio |-> 50,
      redFlagVeryLowRevenue |-> 25000,
      redFlagRevenueDeclinePercent |-> 50,
      redFlagTooNewYears |-> 1,
      redFlagHighCompensation |-> UndefV,
      redFlagModerateCompensation |-> UndefV ]

Weights(t) ==
    << t.weight501c3Status, t.weightYearsOperating, t.weightRevenueRange,
       t.weightOverheadRatio, t.weightRecent990 >>

RECURSIVE SumSeq(_)
SumSeq(s) == IF s = <<>> THEN 0 ELSE Head(s) + SumSeq(Tail(s))

\* errors.push(msg) when cond holds
PushIf(errors, cond, msg) == IF cond THEN Append(errors, msg) ELSE errors

\* The errors array of validateThresholds, in the order the code pushes.
\* validateThresholds throws iff it is not empty, and the thrown message is
\* the join of all its entries.
ValidationErrors(t) ==
    LET w == Weights(t)
        e1 == PushIf(<<>>, \E i \in 1..Len(w) : w[i] < 0,
                     "All weights must be non-negative")
        e2 == PushIf(e1, SumSeq(w) # 100, "Weights must sum to 100")
        e3 == PushIf(e2, t.revenueFailMin > t.revenuePassMin,
                     "revenueFailMin must be <= revenuePassMin")
        e4 == PushIf(e3, t.revenuePassMin > t.revenuePassMax,
                     "revenuePassMin must be <= revenuePassMax")
        e5 == PushIf(e4, t.revenuePassMax > t.revenueReviewMax,
                     "revenuePassMax must be <= revenueReviewMax")
        e6 == PushIf(e5, t.expenseRatioLowReview > t.expenseRatioPassMin,
                     "expenseRatioLowReview must be <= expenseRatioPassMin")
        e7 == PushIf(e6, t.expenseRatioPassMin > t.expenseRatioPassMax,
                     "expenseRatioPassMin must be <= expenseRatioPassMax")
        e8 == PushIf(e7, t.expenseRatioPassMax > t.expenseRatioHighReview,
                     "expenseRatioPassMax must be <= expenseRatioHighReview")
        e9 == PushIf(e8, t.yearsReviewMin > t.yearsPassMin,
                     "yearsReviewMin must be <= yearsPassMin")
        e10 == PushIf(e9, t.filing990PassMax > t.filing990ReviewMax,
                      "filing990PassMax must be <= filing990ReviewMax")
        e11 == PushIf(e10, t.scoreReviewMin > t.scorePassMin,
                      "scoreReviewMin must be <= scorePassMin")
        e12 == PushIf(e11, t.scorePassMin < 0 \/ t.scorePassMin > 100,
                      "scorePassMin must be between 0 and 100")
        e13 == PushIf(e12, t.scoreReviewMin < 0 \/ t.scoreReviewMin > 100,
                      "scoreReviewMin must be between 0 and 100")
        e14 == PushIf(e13, t.revenueFailMin < 0,
                      "revenueFailMin must be non-negative")
        e15 == PushIf(e14, t.revenueReviewMax < 0,
                      "revenueReviewMax must be non-negative")
        e16 == PushIf(e15, t.yearsReviewMin < 0,
                      "yearsReviewMin must be non-negative")
        e17 == PushIf(e16, t.yearsPassMin < 0,
                      "yearsPassMin must be non-negative")
        e18 == PushIf(e17, t.filing990PassMax < 0,
                      "filing990PassMax must be non-negative")
        e19 == PushIf(e18, t.filing990ReviewMax < 0,
                      "filing990ReviewMax must be non-negative")
        e20 == PushIf(e19, t.redFlagTooNewYears < 0,
                      "redFlagTooNewYears must be non-negative")
        e21 == PushIf(e20, t.redFlagStale990Years < 0,
                      "redFlagStale990Years must be non-negative")
        e22 == PushIf(e21, t.redFlagRevenueDeclinePercent < 0
                           \/ t.redFlagRevenueDeclinePercent > 100,
                      "redFlagRevenueDeclinePercent must be between 0 and 1")
    IN  e22

\* A validation that stops at the first violation found.
validateThresholdsFirstOnly(t) ==
    LET errors == ValidationErrors(t)
    IN  IF Len(errors) > 0
        THEN [threw |-> TRUE, message |-> <<errors[1]>>]
        ELSE [threw |-> FALSE, message |-> <<>>]

\* variant: configuration is used without being validated
AcceptedUnchecked(t) == TRUE

\* validateThresholds(t): returns normally, or throws one Error whose
\* message joins every entry of the errors array.
validateThresholds(t) ==
    LET errors == ValidationErrors(t)
    IN  IF Len(errors) > 0
        THEN [threw |-> TRUE, message |-> errors]
        ELSE [threw |-> FALSE, message |-> <<>>]

Accepted(t) == ~validateThresholds(t).threw

----------------------------------------------------------------------------
(* Dates and tax periods: scoring.ts yearsFromTaxPeriod *)

\* Day number (days since 1970-01-01) of a civil date.
DaysFromCivil(y, m, d) ==
    LET yy == IF m <= 2 THEN y - 1 ELSE y
        era == yy \div 400
        yoe == yy - era * 400
        mp == IF m > 2 THEN m - 3 ELSE m + 9
        doy == (153 * mp + 2) \div 5 + d - 1
        doe == yoe * 365 + yoe \div 4 - yoe \div 100 + doy
    IN  era * 146097 + doe - 719468

\* new Date(year, monthIndex, 1): a year in 0..99 means 1900 + year, and a
\* month index outside 0..11 carries into the year.
DateOf(year, monthIndex) ==
    LET y0 == IF year \in 0..99 THEN 1900 + year ELSE year
    IN  DaysFromCivil(y0 + (monthIndex \div 12), (monthIndex % 12) + 1, 1)

\* The parts of a string between its dashes.
Digits(n) == [k |-> "digits", n |-> n]
EmptyPart == [k |-> "empty"]
TextPart == [k |-> "text"]
Str(parts) == [kind |-> "string", parts |-> parts]

\* Number(part): digits give their value, the empty string gives 0,
\* anything else gives NaN.
NumberOf(part) ==
    CASE part.k = "digits" -> Num(part.n)
      [] part.k = "empty" -> Num(0)
      [] OTHER -> NaNV

\* !x for a string or a missing value: the empty string is falsy.
Falsy(x) == IsNullish(x) \/ (x.kind = "string" /\ x.parts = <<EmptyPart>>)

Infinite == [inf |-> TRUE]
Age(days) == [inf |-> FALSE, days |-> days]

\* yearsFromTaxPeriod(taxPeriod) at clock value nowDay: the age of the first
\* day of the period, or Infinity when year or month is not a finite number.
\* The age is kept in days; a year is 365.25 days.
yearsFromTaxPeriod(taxPeriod, nowDay) ==
    LET parts == taxPeriod.parts
        year == NumberOf(parts[1])
        month == IF Len(parts) >= 2 THEN NumberOf(parts[2]) ELSE NaNV
    IN  IF year.kind # "number" \/ month.kind # "number"
        THEN Infinite
        ELSE Age(nowDay - DateOf(year.val, month.val - 1))

\* variant: yearsAgo >= n where the code has yearsAgo > n
AgeGtOrEqual(a, n) == a.inf \/ a.days * 4 >= n * 1461

\* yearsAgo <= n and yearsAgo > n, for n in years
AgeLeq(a, n) == ~a.inf /\ a.days * 4 <= n * 1461
AgeGt(a, n) == a.inf \/ a.days * 4 > n * 1461

----------------------------------------------------------------------------
(* The five checks: scoring.ts *)

Tier1Check(name, res, detail, weight) ==
    [name |-> name, passed |-> (res = "PASS"), result |-> res,
     detail |-> detail, weight |-> weight]

\* variant: the weight copied from the next check
check501c3StatusYearsWeight(p, t) ==
    LET passed == p.subsection = "03"
    IN  [name |-> "501c3_status",
         passed |-> passed,
         result |-> IF passed THEN "PASS" ELSE "FAIL",
         detail |-> IF passed THEN "501(c)(3) public charity"
                    ELSE "Not a 501(c)(3)",
         weight |-> t.weightYearsOperating]

check501c3Status(p, t) ==
    LET passed == p.subsection = "03"
    IN  [name |-> "501c3_status",
         passed |-> passed,
         result |-> IF passed THEN "PASS" ELSE "FAIL",
         detail |-> IF passed THEN "501(c)(3) public charity"
                    ELSE "Not a 501(c)(3)",
         weight |-> t.weight501c3Status]

\* Boundaries given to the lower tier: <= where the code has <.
checkYearsOperatingLowerTier(p, t) ==
    LET years == p.years_operating
        rd == CASE years.kind = "null" \/ years.val < 0 ->
                     <<"FAIL", "No ruling date available">>
                [] years.val <= t.yearsReviewMin ->
                     <<"FAIL", "Less than yearsReviewMin operating">>
                [] years.val <= t.yearsPassMin ->
                     <<"REVIEW", "years operating - newer organization">>
                [] OTHER ->
                     <<"PASS", "years operating">>
    IN  Tier1Check("years_operating", rd[1], rd[2], t.weightYearsOperating)

checkYearsOperating(p, t) ==
    LET years == p.years_operating
        rd == CASE years.kind = "null" \/ years.val < 0 ->
                     <<"FAIL", "No ruling date available">>
                [] years.val < t.yearsReviewMin ->
                     <<"FAIL", "Less than yearsReviewMin operating">>
                [] years.val < t.yearsPassMin ->
                     <<"REVIEW", "years operating - newer organization">>
                [] OTHER ->
                     <<"PASS", "years operating">>
    IN  Tier1Check("years_operating", rd[1], rd[2], t.weightYearsOperating)

\* Zero revenue taken for missing revenue (a truthiness test, !revenue).
checkRevenueRangeFalsyZero(p, t) ==
    LET revenue == OptField(p.latest_990, "total_revenue")
        rd == CASE IsNullish(revenue) \/ revenue.val = 0 ->
                     <<"FAIL", "No revenue data available">>
                [] revenue.val < 0 ->
                     <<"FAIL", "Negative revenue - data anomaly requires investigation">>
                [] revenue.val < t.revenueFailMin ->
                     <<"FAIL", "revenue - too small to assess reliably">>
                [] revenue.val < t.revenuePassMin ->
                     <<"REVIEW", "revenue - small but viable">>
                [] revenue.val <= t.revenuePassMax ->
                     <<"PASS", "revenue - appropriate size for impact">>
                [] revenue.val <= t.revenueReviewMax ->
                     <<"REVIEW", "revenue - larger organization, may have different needs">>
                [] OTHER ->
                     <<"FAIL", "revenue - outside target scope">>
    IN  Tier1Check("revenue_range", rd[1], rd[2], t.weightRevenueRange)

checkRevenueRange(p, t) ==
    LET revenue == OptField(p.latest_990, "total_revenue")
        rd == CASE IsNullish(revenue) ->
                     <<"FAIL", "No revenue data available">>
                [] revenue.val < 0 ->
                     <<"FAIL", "Negative revenue - data anomaly requires investigation">>
                [] revenue.val = 0 ->
                     <<"FAIL", "Zero revenue reported">>
                [] revenue.val < t.revenueFailMin ->
                     <<"FAIL", "revenue - too small to assess reliably">>
                [] revenue.val < t.revenuePassMin ->
                     <<"REVIEW", "revenue - small but viable">>
                [] revenue.val <= t.revenuePassMax ->
                     <<"PASS", "revenue - appropriate size for impact">>
                [] revenue.val <= t.revenueReviewMax ->
                     <<"REVIEW", "revenue - larger organization, may have different needs">>
                [] OTHER ->
                     <<"FAIL", "revenue - outside target scope">>
    IN  Tier1Check("revenue_range", rd[1], rd[2], t.weightRevenueRange)

\* No Number.isNaN test: NaN fails every comparison and reaches the last
\* branch.
checkOverheadRatioNoNaNTest(p, t) ==
    LET ratio == OptField(p.latest_990, "overhead_ratio")
        isNum == ratio.kind = "number"
        rd == CASE IsNullish(ratio) ->
                     <<"REVIEW", "Cannot calculate expense efficiency - missing data">>
                [] isNum /\ ratio.val >= t.expenseRatioPassMin
                   /\ ratio.val <= t.expenseRatioPassMax ->
                     <<"PASS", "expense-to-revenue ratio - healthy fund deployment">>
                [] isNum /\ ratio.val > t.expenseRatioPassMax
                   /\ ratio.val <= t.expenseRatioHighReview ->
                     <<"REVIEW", "expense-to-revenue ratio - spending exceeds revenue (check reserves)">>
                [] isNum /\ ratio.val > t.expenseRatioHighReview ->
                     <<"FAIL", "expense-to-revenue ratio - potentially unsustainable">>
                [] isNum /\ ratio.val >= t.expenseRatioLowReview ->
                     <<"REVIEW", "expense-to-revenue ratio - lower than typical (accumulating reserves?)">>
                [] OTHER ->
                     <<"FAIL", "expense-to-revenue ratio - very low fund deployment">>
    IN  Tier1Check("overhead_ratio", rd[1], rd[2], t.weightOverheadRatio)

checkOverheadRatio(p, t) ==
    LET ratio == OptField(p.latest_990, "overhead_ratio")
        rd == CASE IsNullish(ratio) \/ ratio.kind = "NaN" ->
                     <<"REVIEW", "Cannot calculate expense efficiency - missing data">>
                [] ratio.val >= t.expenseRatioPassMin
                   /\ ratio.val <= t.expenseRatioPassMax ->
                     <<"PASS", "expense-to-revenue ratio - healthy fund deployment">>
                [] ratio.val > t.expenseRatioPassMax
                   /\ ratio.val <= t.expenseRatioHighReview ->
                     <<"REVIEW", "expense-to-revenue ratio - spending exceeds revenue (check reserves)">>
                [] ratio.val > t.expenseRatioHighReview ->
                     <<"FAIL", "expense-to-revenue ratio - potentially unsustainable">>
                [] ratio.val >= t.expenseRatioLowReview ->
                     <<"REVIEW", "expense-to-revenue ratio - lower than typical (accumulating reserves?)">>
                [] OTHER ->
                     <<"FAIL", "expense-to-revenue ratio - very low fund deployment">>
    IN  Tier1Check("overhead_ratio", rd[1], rd[2], t.weightOverheadRatio)

checkRecent990(p, t, nowDay) ==
    LET taxPeriod == OptField(p.latest_990, "tax_period")
        rd == IF Falsy(taxPeriod) \/ p.filing_count = 0
              THEN <<"FAIL", "No 990 filings on record">>
              ELSE LET yearsAgo == yearsFromTaxPeriod(taxPeriod, nowDay)
                   IN  CASE AgeLeq(yearsAgo, t.filing990PassMax) ->
                              <<"PASS", "Most recent 990 from taxPeriod">>
                         [] AgeLeq(yearsAgo, t.filing990ReviewMax) ->
                              <<"REVIEW", "Most recent 990 from taxPeriod - data is N years old">>
                         [] OTHER ->
                              <<"FAIL", "Most recent 990 from taxPeriod - data is N years old (too stale)">>
    IN  Tier1Check("recent_990", rd[1], rd[2], t.weightRecent990)

----------------------------------------------------------------------------
(* Score and recommendation: scoring.ts *)

\* The two branches exchanged: half the weight for a PASS, all of it for a
\* REVIEW.
HalfPointsSwapped(check) ==
    CASE check.result = "PASS" -> check.weight
      [] check.result = "REVIEW" -> 2 * check.weight
      [] OTHER -> 0

\* variant: no branch for REVIEW, which then earns nothing
HalfPointsNoReview(check) ==
    CASE check.result = "PASS" -> 2 * check.weight
      [] OTHER -> 0

\* The contribution of one check to the running sum, in half points
\* (check.weight is 2 half points per point, check.weight * 0.5 is 1).
HalfPoints(check) ==
    CASE check.result = "PASS" -> 2 * check.weight
      [] check.result = "REVIEW" -> check.weight
      [] OTHER -> 0

\* The loop of calculateScore: the running sum after the first n checks.
RECURSIVE ScoreLoop(_, _)
ScoreLoop(checks, n) ==
    IF n = 0 THEN 0 ELSE ScoreLoop(checks, n - 1) + HalfPoints(checks[n])

\* A rounding that drops the half instead of rounding it up.
MathFloorHalves(h) == h \div 2

\* Math.round(x) for x given in halves: floor(x + 0.5).
MathRoundHalves(h) == (h + 1) \div 2

\* variant: a REVIEW check scores its full weight
calculateScoreReviewInFull(checks) ==
    SumSeq([i \in 1..Len(checks) |->
              IF checks[i].result = "FAIL" THEN 0 ELSE checks[i].weight])

calculateScore(checks) == MathRoundHalves(ScoreLoop(checks, Len(checks)))

\* A recommendation that lets a passing score win over a HIGH flag.
getRecommendationScoreFirst(score, redFlags, t) ==
    IF score >= t.scorePassMin THEN "PASS"
    ELSE IF \E i \in 1..Len(redFlags) : redFlags[i].severity = "HIGH"
    THEN "REJECT"
    ELSE IF score >= t.scoreReviewMin THEN "REVIEW"
    ELSE "REJECT"

getRecommendation(score, redFlags, t) ==
    IF \E i \in 1..Len(redFlags) : redFlags[i].severity = "HIGH"
    THEN "REJECT"
    ELSE IF score >= t.scorePassMin THEN "PASS"
    ELSE IF score >= t.scoreReviewMin THEN "REVIEW"
    ELSE "REJECT"

----------------------------------------------------------------------------
(* Red flags: scoring.ts detectRedFlags *)

RedFlag(severity, type, detail) ==
    [severity |-> severity, type |-> type, detail |-> detail]

\* variant: the not_501c3 rule never pushes its flag
FlagIfSkipsNot501c3(flags, cond, flag) ==
    IF cond /\ flag.type # "not_501c3" THEN Append(flags, flag) ELSE flags

\* flags.push(flag) when cond holds
FlagIf(flags, cond, flag) == IF cond THEN Append(flags, flag) ELSE flags

\* [...filings].sort((a, b) => b.tax_prd - a.tax_prd): descending by period
\* code, stable (equal codes keep their input order).
RECURSIVE InsertDesc(_, _)
InsertDesc(sorted, f) ==
    IF sorted = <<>> THEN <<f>>
    ELSE IF Head(sorted).tax_prd >= f.tax_prd
         THEN <<Head(sorted)>> \o InsertDesc(Tail(sorted), f)
         ELSE <<f>> \o sorted

\* variant: the filings are taken in the order given, without sorting
SortDescUnsorted(fs) == fs

RECURSIVE SortDesc(_)
SortDesc(fs) ==
    IF fs = <<>> THEN <<>>
    ELSE InsertDesc(SortDesc(SubSeq(fs, 1, Len(fs) - 1)), fs[Len(fs)])

\* variant: an undefined threshold read as 0 (threshold ?? 0)
GtOptUndefinedAsZero(a, b) == IF b.kind = "number" THEN a > b.val ELSE a > 0

\* a > b where b may be undefined (then the comparison is false)
GtOpt(a, b) == b.kind = "number" /\ a > b.val

\* variant: a separate `if`, tested whatever the first test gave
ElseIfIndependent(first, second) == second

\* if (first) { ... } else if (second) { ... }: the second branch is taken
ElseIf(first, second) == ~first /\ second

detectRedFlags(p, fs, t, nowDay) ==
    LET latest == p.latest_990
        has990 == latest.kind # "null"
        f1 == FlagIf(<<>>, p.filing_count = 0 \/ ~has990,
                 RedFlag("HIGH", "no_990_on_file",
                         "No 990 filings on record with ProPublica"))
        f2 == FlagIf(f1, p.subsection # "03",
                 RedFlag("HIGH", "not_501c3",
                         "Organization is 501(c)(subsection) - donations may not be tax-deductible"))
        f3 == FlagIf(f2, p.ruling_date = "" \/ p.years_operating.kind = "null",
                 RedFlag("HIGH", "no_ruling_date",
                         "No IRS ruling date on record"))
        f4 == FlagIf(f3, p.years_operating.kind # "null"
                         /\ p.years_operating.val < t.redFlagTooNewYears,
                 RedFlag("MEDIUM", "too_new",
                         "Organization is less than redFlagTooNewYears old"))
        \* inside if (profile.latest_990)
        taxPeriod == latest.tax_period
        f5 == FlagIf(f4, has990 /\ ~Falsy(taxPeriod)
                         /\ AgeGt(yearsFromTaxPeriod(taxPeriod, nowDay),
                                  t.redFlagStale990Years),
                 RedFlag("HIGH", "stale_990", "Most recent 990 is from taxPeriod"))
        ratio == latest.overhead_ratio
        hasRatio == has990 /\ ~IsNullish(ratio)
        \* a NaN ratio compares false with everything
        ratioHigh == hasRatio /\ ratio.kind = "number"
                     /\ ratio.val > t.redFlagHighExpenseRatio
        f6 == FlagIf(f5, ratioHigh,
                 RedFlag("HIGH", "very_high_overhead",
                         "Expense-to-revenue ratio - spending far exceeds income"))
        f7 == FlagIf(f6, hasRatio
                         /\ ElseIf(ratioHigh,
                                   ratio.kind = "number"
                                   /\ ratio.val < t.redFlagLowExpenseRatio),
                 RedFlag("MEDIUM", "low_fund_deployment",
                         "Expense-to-revenue ratio - low fund deployment"))
        revenue == latest.total_revenue
        f8 == FlagIf(f7, has990 /\ ~IsNullish(revenue)
                         /\ revenue.val < t.redFlagVeryLowRevenue,
                 RedFlag("MEDIUM", "very_low_revenue",
                         "Revenue - very small operation"))
        compRatio == latest.officer_compensation_ratio
        hasComp == has990 /\ ~IsNullish(compRatio)
                   /\ compRatio.kind = "number" /\ compRatio.val > 0
        compHigh == hasComp /\ GtOpt(compRatio.val, t.redFlagHighCompensation)
        f9 == FlagIf(f8, compHigh,
                 RedFlag("HIGH", "high_officer_compensation",
                         "Officer/director compensation - exceeds threshold"))
        f10 == FlagIf(f9, hasComp
                          /\ ElseIf(compHigh,
                                    GtOpt(compRatio.val,
                                          t.redFlagModerateCompensation)),
                 RedFlag("MEDIUM", "high_officer_compensation",
                         "Officer/director compensation - elevated"))
        \* revenue decline: filings && filings.length >= 2
        sorted == SortDesc(fs)
        latestF == sorted[1]
        previous == sorted[2]
        f11 == FlagIf(f10, Len(fs) >= 2
                           /\ ~IsNullish(latestF.totrevenue)
                           /\ ~IsNullish(previous.totrevenue)
                           /\ previous.totrevenue.val > 0
                           /\ latestF.totrevenue.val >= 0
                           \* decline = (previous - latest) / previous, finite
                           \* here, compared in hundredths
                           /\ (previous.totrevenue.val - latestF.totrevenue.val) * 100
                                > t.redFlagRevenueDeclinePercent * previous.totrevenue.val,
                 RedFlag("MEDIUM", "revenue_decline",
                         "Revenue declined year-over-year"))
    IN  f11

----------------------------------------------------------------------------
(* Summaries: messages.ts *)

\* VERDICT_CONFIG: headline and next_steps of each recommendation (the
\* template is applied in Justification)
VERDICT_CONFIG ==
    [ PASS |->
        [ headline |-> "Approved for Tier 2 Vetting",
          next_steps |-> << "Proceed to Tier 2 deep-dive vetting",
                            "Review program effectiveness and impact metrics",
                            "Verify leadership and governance structure" >> ],
      REVIEW |->
        [ headline |-> "Manual Review Required",
          next_steps |-> << "Review flagged items manually",
                            "Request additional documentation if needed",
                            "Re-evaluate after addressing concerns" >> ],
      REJECT |->
        [ headline |-> "Does Not Meet Criteria",
          next_steps |-> << "Do not proceed with funding consideration",
                            "Document rejection reason for records",
                            "Consider alternative organizations in this space" >> ] ]

CheckMessage(factor, weight) == [factor |-> factor, weight |-> weight]

\* CHECK_MESSAGES
CHECK_MESSAGES ==
    [ c501c3_status |->
        [ PASS |-> CheckMessage("501(c)(3) tax-exempt status verified", "positive"),
          REVIEW |-> CheckMessage("501(c)(3) status needs verification", "neutral"),
          FAIL |-> CheckMessage("Not a 501(c)(3) organization", "negative") ],
      years_operating |->
        [ PASS |-> CheckMessage("Established track record (3+ years)", "positive"),
          REVIEW |-> CheckMessage("Newer organization (1-3 years)", "neutral"),
          FAIL |-> CheckMessage("Insufficient operating history", "negative") ],
      revenue_range |->
        [ PASS |-> CheckMessage("Revenue in target range ($100K-$10M)", "positive"),
          REVIEW |-> CheckMessage("Revenue outside ideal range", "neutral"),
          FAIL |-> CheckMessage("Revenue outside acceptable range", "negative") ],
      overhead_ratio |->
        [ PASS |-> CheckMessage("Healthy expense-to-revenue ratio", "positive"),
          REVIEW |-> CheckMessage("Expense ratio needs review", "neutral"),
          FAIL |-> CheckMessage("Concerning expense ratio", "negative") ],
      recent_990 |->
        [ PASS |-> CheckMessage("Recent financial data available", "positive"),
          REVIEW |-> CheckMessage("Financial data slightly dated", "neutral"),
          FAIL |-> CheckMessage("Financial data too old or missing", "negative") ] ]

\* the key of a check name in CHECK_MESSAGES ("501c3_status" is not an
\* identifier)
MessageKey(name) == IF name = "501c3_status" THEN "c501c3_status" ELSE name

\* RED_FLAG_FACTORS
RED_FLAG_FACTORS ==
    [ no_990_on_file |-> "No 990 filings on record",
      stale_990 |-> "Financial data is severely outdated",
      low_fund_deployment |-> "Low fund deployment ratio",
      very_high_overhead |-> "Unsustainable expense-to-revenue ratio",
      no_ruling_date |-> "No IRS determination date",
      very_low_revenue |-> "Very small operation",
      revenue_decline |-> "Significant revenue decline",
      not_501c3 |-> "Not tax-exempt under 501(c)(3)",
      too_new |-> "Organization is less than 1 year old",
      high_officer_compensation |-> "High officer/director compensation ratio" ]

\* A key factor line `${prefix} ${text}` or `- ${text} (${severity})`.
CheckLine(prefix, text) == prefix \o " " \o text
FlagLine(text, severity) == "- " \o text \o " (" \o severity \o ")"

\* f.includes(flagMsg): flagMsg occurs in the line at some position (the
\* empty text occurs in every line)
Includes(line, flagMsg) ==
    \E i \in 1..(Len(line) - Len(flagMsg) + 1) :
        SubSeq(line, i, i + Len(flagMsg) - 1) = flagMsg

\* first loop of generateSummary: one line per check that has messages
RECURSIVE CheckFactors(_)
CheckFactors(checks) ==
    IF checks = <<>> THEN <<>>
    ELSE LET check == Head(checks)
             key == MessageKey(check.name)
         IN  (IF key \in DOMAIN CHECK_MESSAGES
              THEN LET msg == CHECK_MESSAGES[key][check.result]
                       prefix == IF msg.weight = "positive" THEN "+"
                                 ELSE IF msg.weight = "negative" THEN "-"
                                 ELSE "~"
                   IN  <<CheckLine(prefix, msg.factor)>>
              ELSE <<>>)
             \o CheckFactors(Tail(checks))

\* variant: a flag is compared with the lines of the checks only
FlagFactorsChecksOnly(keyFactors, redFlags) ==
    LET msgOf(flag) == IF flag.type \in DOMAIN RED_FLAG_FACTORS
                       THEN RED_FLAG_FACTORS[flag.type] ELSE flag.detail
        kept == SelectSeq(redFlags,
                          LAMBDA flag : ~\E i \in 1..Len(keyFactors) :
                                            Includes(keyFactors[i], msgOf(flag)))
    IN  keyFactors \o [i \in 1..Len(kept) |->
                         FlagLine(msgOf(kept[i]), kept[i].severity)]

\* second loop: a flag's line is pushed unless some line pushed so far
\* (from a check or from an earlier flag) includes its message
RECURSIVE FlagFactors(_, _)
FlagFactors(keyFactors, redFlags) ==
    IF redFlags = <<>> THEN keyFactors
    ELSE LET flag == Head(redFlags)
             flagMsg == IF flag.type \in DOMAIN RED_FLAG_FACTORS
                        THEN RED_FLAG_FACTORS[flag.type] ELSE flag.detail
             pushed == IF \E i \in 1..Len(keyFactors) :
                              Includes(keyFactors[i], flagMsg)
                       THEN keyFactors
                       ELSE Append(keyFactors, FlagLine(flagMsg, flag.severity))
         IN  FlagFactors(pushed, Tail(redFlags))

\* checks.filter(c => c.result !== "PASS").map(c => c.detail)
RECURSIVE Issues(_)
Issues(checks) ==
    IF checks = <<>> THEN <<>>
    ELSE (IF Head(checks).result # "PASS" THEN <<Head(checks).detail>> ELSE <<>>)
         \o Issues(Tail(checks))

\* .slice(0, 3)
SliceTop3(xs) == SubSeq(xs, 1, IF Len(xs) < 3 THEN Len(xs) ELSE 3)

\* config.template with its placeholders replaced: the values that enter
\* the text of each recommendation
Justification(recommendation, name, score, yearsOperating, issues) ==
    LET issuesSummary == IF Len(issues) > 0
                         THEN <<"Key concerns: ", issues>>
                         ELSE <<"No specific concerns identified.">>
    IN  IF recommendation = "PASS"
        THEN [template |-> "PASS", score |-> score, name |-> name,
              years |-> IF yearsOperating.kind # "null"
                        THEN yearsOperating ELSE [kind |-> "unknown"]]
        ELSE [template |-> recommendation, score |-> score,
              issues_summary |-> issuesSummary]

\* generateSummary; next_steps is the value of [...config.next_steps]
generateSummary(name, score, recommendation, checks, redFlags, yearsOperating) ==
    LET config == VERDICT_CONFIG[recommendation]
    IN  [ headline |-> config.headline,
          justification |-> Justification(recommendation, name, score,
                                          yearsOperating,
                                          SliceTop3(Issues(checks))),
          key_factors |-> FlagFactors(CheckFactors(checks), redFlags),
          next_steps |-> config.next_steps ]

\* The arrays are numbered: 1, 2 and 3 are the next_steps arrays of
\* VERDICT_CONFIG, created when the module is loaded.
Verdicts == <<"PASS", "REVIEW", "REJECT">>

TemplateRef(recommendation) ==
    CHOOSE i \in 1..Len(Verdicts) : Verdicts[i] = recommendation

LoadedArrays == [i \in 1..Len(Verdicts) |-> VERDICT_CONFIG[Verdicts[i]].next_steps]

\* variant: the array itself is handed out (next_steps: config.next_steps)
SpreadCopyAliased(arrays, ref) == [arrays |-> arrays, ref |-> ref]

\* [...arrays[ref]]: a new array with the same elements
SpreadCopy(arrays, ref) ==
    [arrays |-> Append(arrays, arrays[ref]), ref |-> Len(arrays) + 1]

----------------------------------------------------------------------------
(* The two entry points: scoring.ts runTier1Checks, runRedFlagCheck *)

\* details of the non-PASS checks, in order
RECURSIVE CheckReasons(_)
CheckReasons(checks) ==
    IF checks = <<>> THEN <<>>
    ELSE (IF Head(checks).result # "PASS"
          THEN <<<<Head(checks).detail>>>> ELSE <<>>)
         \o CheckReasons(Tail(checks))

\* "RED FLAG: " + detail of the HIGH flags, in order
RECURSIVE FlagReasons(_)
FlagReasons(flags) ==
    IF flags = <<>> THEN <<>>
    ELSE (IF Head(flags).severity = "HIGH"
          THEN <<<<"RED FLAG: ", Head(flags).detail>>>> ELSE <<>>)
         \o FlagReasons(Tail(flags))

\* variant: the reasons of the flags first
buildReviewReasonsFlagsFirst(checks, redFlags) ==
    FlagReasons(redFlags) \o CheckReasons(checks)

\* A reason is the sequence of the pieces of its text.
buildReviewReasons(checks, redFlags) ==
    CheckReasons(checks) \o FlagReasons(redFlags)

runTier1Checks(p, fs, t, nowDay) ==
    LET checks == << check501c3Status(p, t),
                     checkYearsOperating(p, t),
                     checkRevenueRange(p, t),
                     checkOverheadRatio(p, t),
                     checkRecent990(p, t, nowDay) >>
        score == calculateScore(checks)
        redFlags == detectRedFlags(p, fs, t, nowDay)
        recommendation == getRecommendation(score, redFlags, t)
    IN  [ ein |-> p.ein,
          name |-> p.name,
          passed |-> (recommendation = "PASS"),
          score |-> score,
          summary |-> generateSummary(p.name, score, recommendation, checks,
                                      redFlags, p.years_operating),
          checks |-> checks,
          recommendation |-> recommendation,
          review_reasons |-> buildReviewReasons(checks, redFlags),
          red_flags |-> redFlags ]

\* variant: clean when no flag is HIGH
runRedFlagCheckCleanWithoutHigh(p, fs, t, nowDay) ==
    LET flags == detectRedFlags(p, fs, t, nowDay)
    IN  [ ein |-> p.ein, name |-> p.name, flags |-> flags,
          clean |-> ~\E i \in 1..Len(flags) : flags[i].severity = "HIGH" ]

runRedFlagCheck(p, fs, t, nowDay) ==
    LET flags == detectRedFlags(p, fs, t, nowDay)
    IN  [ ein |-> p.ein, name |-> p.name, flags |-> flags,
          clean |-> (Len(flags) = 0) ]

----------------------------------------------------------------------------
(* Inputs *)

\* JavaScript's {...base, ...overrides}
Merge(base, overrides) ==
    [f \in DOMAIN base |->
        IF f \in DOMAIN overrides THEN overrides[f] ELSE base[f]]

\* All sequences over S of length at most n
RECURSIVE SeqsUpTo(_, _)
SeqsUpTo(S, n) ==
    IF n = 0 THEN {<<>>}
    ELSE LET shorter == SeqsUpTo(S, n - 1)
         IN  shorter \cup {Append(s, x) : s \in {q \in shorter : Len(q) = n - 1}, x \in S}

NoCall == [kind |-> "none"]

----------------------------------------------------------------------------
(* getRecommendation applied to any score, flag list and cutoffs *)

MaxFlags == 2

ScoreCuts == {0, 50, 80, 100}

\* every cutoff and its two neighbours
ScoreValues == {c + d : c \in ScoreCuts, d \in {-1, 0, 1}}

Severities == {"HIGH", "MEDIUM", "LOW"}

FlagLists ==
    SeqsUpTo({RedFlag(s, "too_new", "test") : s \in Severities}, MaxFlags)

\* any pair of cutoffs, ordered or not
CutoffThresholds ==
    { Merge(DefaultThresholds, [scorePassMin |-> p, scoreReviewMin |-> r]) :
        p \in ScoreCuts, r \in ScoreCuts }

InitRecommendation ==
    /\ pc = "ready"
    /\ op = "none"
    /\ thresholds \in CutoffThresholds
    /\ args \in [score : ScoreValues, flags : FlagLists]
    /\ profile = NullV
    /\ filings = <<>>
    /\ now = 0
    /\ result = NoCall
    /\ heap = LoadedArrays

CallGetRecommendation ==
    /\ pc = "ready"
    /\ result' = [kind |-> "recommendation",
                  value |-> getRecommendation(args.score, args.flags, thresholds)]
    /\ pc' = "done"
    /\ op' = "getRecommendation"
    /\ UNCHANGED <<heap, thresholds, profile, filings, now, args>>

NextRecommendation == CallGetRecommendation

SpecRecommendation == InitRecommendation /\ [][NextRecommendation]_vars

HasHigh(flags) == \E i \in 1..Len(flags) : flags[i].severity = "HIGH"

RecommendationDone == pc = "done" /\ op = "getRecommendation"

\* C1 as stated: getRecommendation is REJECT with a HIGH flag; without one
\* it is PASS when score >= scorePassMin, REVIEW when scoreReviewMin <= score
\* < scorePassMin and REJECT when score < scoreReviewMin, for every
\* thresholds value.
C1_AsStated ==
    RecommendationDone =>
        LET s == args.score
            t == thresholds
            r == result.value
        IN  /\ HasHigh(args.flags) => r = "REJECT"
            /\ ~HasHigh(args.flags) =>
                /\ s >= t.scorePassMin => r = "PASS"
                /\ (t.scoreReviewMin <= s /\ s < t.scorePassMin) => r = "REVIEW"
                /\ s < t.scoreReviewMin => r = "REJECT"

\* C1 amended: the same rule, where REJECT below scoreReviewMin is claimed
\* only for scores that are also below scorePassMin (the two coincide when
\* scoreReviewMin <= scorePassMin). MEDIUM and LOW flags change nothing:
\* the outcome without a HIGH flag depends on the score alone.
C1_Recommendation ==
    RecommendationDone =>
        LET s == args.score
            t == thresholds
            r == result.value
        IN  /\ HasHigh(args.flags) => r = "REJECT"
            /\ ~HasHigh(args.flags) =>
                /\ s >= t.scorePassMin => r = "PASS"
                /\ (t.scoreReviewMin <= s /\ s < t.scorePassMin) => r = "REVIEW"
                /\ (s < t.scoreReviewMin /\ s < t.scorePassMin) => r = "REJECT"
            /\ (t.scoreReviewMin <= t.scorePassMin /\ ~HasHigh(args.flags)
                /\ s < t.scoreReviewMin) => r = "REJECT"

\* C1 witness: a HIGH flag overrides a passing score, next to a MEDIUM flag.
C1_Witness ==
    /\ RecommendationDone
    /\ args.score >= thresholds.scorePassMin
    /\ Len(args.flags) = 2
    /\ args.flags[1].severity = "MEDIUM"
    /\ args.flags[2].severity = "HIGH"
    /\ result.value = "REJECT"

----------------------------------------------------------------------------
(* calculateScore applied to any list of check outcomes *)

MaxChecks == 3

\* integer weights: odd ones give halves, a negative one is allowed by the
\* type; 15 + 35 + 50 = 100
ScoreWeights == {-5, 15, 35, 50}

Results == {"PASS", "REVIEW", "FAIL"}

CheckOutcomes ==
    {Tier1Check("check", r, "", w) : r \in Results, w \in ScoreWeights}

CheckLists == SeqsUpTo(CheckOutcomes, MaxChecks)

InitScore ==
    /\ pc = "ready"
    /\ op = "none"
    /\ thresholds = DefaultThresholds
    /\ args \in [checks : CheckLists]
    /\ profile = NullV
    /\ filings = <<>>
    /\ now = 0
    /\ result = NoCall
    /\ heap = LoadedArrays

CallCalculateScore ==
    /\ pc = "ready"
    /\ result' = [kind |-> "score", value |-> calculateScore(args.checks)]
    /\ pc' = "done"
    /\ op' = "calculateScore"
    /\ UNCHANGED <<heap, thresholds, profile, filings, now, args>>

Rank(r) == CASE r = "FAIL" -> 0 [] r = "REVIEW" -> 1 [] OTHER -> 2

\* calculateScore called again on the same list with one outcome upgraded
CallCalculateScoreUpgraded ==
    /\ pc = "done"
    /\ \E i \in 1..Len(args.checks) : \E r \in Results :
          /\ Rank(r) > Rank(args.checks[i].result)
          /\ LET c == args.checks[i]
                 upgraded == [args.checks EXCEPT
                                ![i] = Tier1Check(c.name, r, c.detail, c.weight)]
             IN  /\ args' = [checks |-> upgraded]
                 /\ result' = [kind |-> "score", value |-> calculateScore(upgraded)]
    /\ op' = "calculateScoreUpgraded"
    /\ UNCHANGED <<heap, pc, thresholds, profile, filings, now>>

NextScore == CallCalculateScore \/ CallCalculateScoreUpgraded

SpecScore == InitScore /\ [][NextScore]_vars

ScoreDone == pc = "done" /\ result.kind = "score"

\* twice the exact sum: 2w per PASS, w per REVIEW, 0 per FAIL
DoubledSum(checks) ==
    SumSeq([i \in 1..Len(checks) |->
              IF checks[i].result = "PASS" THEN 2 * checks[i].weight
              ELSE IF checks[i].result = "REVIEW" THEN checks[i].weight
              ELSE 0])

AllResult(checks, r) == \A i \in 1..Len(checks) : checks[i].result = r

\* C3: calculateScore is the exact sum (full weight per PASS, half per
\* REVIEW, nothing per FAIL) rounded to the nearest integer, an exact half
\* rounding up: the result n satisfies n - 1/2 <= sum < n + 1/2. The empty
\* list and an all-FAIL list give 0; an all-PASS list of weights summing to
\* 100 gives 100.
C3_ScoreIsRoundedSum ==
    ScoreDone =>
        LET d == DoubledSum(args.checks)
            n == result.value
        IN  /\ 2 * n - 1 <= d
            /\ d < 2 * n + 1
            /\ args.checks = <<>> => n = 0
            /\ AllResult(args.checks, "FAIL") => n = 0
            /\ (AllResult(args.checks, "PASS")
                /\ SumSeq([i \in 1..Len(args.checks) |-> args.checks[i].weight]) = 100)
               => n = 100

\* C3 witness: a sum ending in an exact half (30 + 7.5) was rounded up.
C3_Witness ==
    /\ ScoreDone
    /\ DoubledSum(args.checks) % 2 = 1
    /\ DoubledSum(args.checks) > 0
    /\ 2 * result.value = DoubledSum(args.checks) + 1

NonNegativeWeights(checks) == \A i \in 1..Len(checks) : checks[i].weight >= 0

\* b is a with exactly one outcome replaced by a better result
IsUpgrade(a, b) ==
    /\ Len(a) = Len(b)
    /\ \E i \in 1..Len(a) :
          /\ Rank(b[i].result) > Rank(a[i].result)
          /\ b[i].weight = a[i].weight
          /\ \A j \in 1..Len(a) : j # i => b[j] = a[j]

\* C4: with non-negative weights, upgrading a single outcome (FAIL to
\* REVIEW, REVIEW to PASS, FAIL to PASS) and leaving the others unchanged
\* never lowers the score.
C4_ScoreMonotonic ==
    [][ ( /\ ScoreDone
          /\ ScoreDone'
          /\ NonNegativeWeights(args.checks)
          /\ IsUpgrade(args.checks, args'.checks) )
        => result'.value >= result.value ]_vars

\* C4 witness: an upgraded list with non-negative weights was scored again.
C4_Witness ==
    /\ pc = "done"
    /\ op = "calculateScoreUpgraded"
    /\ Len(args.checks) >= 2
    /\ NonNegativeWeights(args.checks)
    /\ \E i \in 1..Len(args.checks) : args.checks[i].weight > 0
                                      /\ args.checks[i].result = "PASS"

----------------------------------------------------------------------------
(* validateThresholds applied to configurations, valid and invalid *)

\* how many overrides are merged onto the defaults at once
MaxOverrides == 2

\* makeThresholds(overrides): partial configurations, each touching one
\* group of fields
WeightOverrides ==
    { [weight501c3Status |-> -10, weightYearsOperating |-> 55],
      [weight501c3Status |-> 50],
      [weight501c3Status |-> 0, weightYearsOperating |-> 45],
      [weight501c3Status |-> -5],
      [weightRecent990 |-> -15, weightRevenueRange |-> 50] }

RevenueOverrides ==
    { [revenueFailMin |-> 200000],
      [revenuePassMin |-> 20000000],
      [revenuePassMax |-> 60000000],
      [revenueFailMin |-> -1],
      [revenueFailMin |-> 0],
      [revenueFailMin |-> -4, revenuePassMin |-> -3,
       revenuePassMax |-> -2, revenueReviewMax |-> -1],
      [revenueReviewMax |-> -1] }

ExpenseOverrides ==
    { [expenseRatioLowReview |-> 90],
      [expenseRatioPassMin |-> 150],
      [expenseRatioPassMax |-> 200],
      [expenseRatioLowReview |-> 70, expenseRatioPassMax |-> 120],
      [expenseRatioLowReview |-> -10] }

YearsOverrides ==
    { [yearsReviewMin |-> 5],
      [yearsReviewMin |-> -1],
      [yearsReviewMin |-> -2, yearsPassMin |-> -1],
      [yearsReviewMin |-> 3],
      [yearsReviewMin |-> 0, yearsPassMin |-> 0] }

FilingOverrides ==
    { [filing990PassMax |-> 5],
      [filing990PassMax |-> -1],
      [filing990PassMax |-> -2, filing990ReviewMax |-> -1],
      [filing990PassMax |-> 3] }

CutoffOverrides ==
    { [scoreReviewMin |-> 90],
      [scorePassMin |-> 101],
      [scorePassMin |-> -1],
      [scoreReviewMin |-> -1],
      [scoreReviewMin |-> 101, scorePassMin |-> 101],
      [scoreReviewMin |-> 0, scorePassMin |-> 100] }

RedFlagOverrides ==
    { [redFlagTooNewYears |-> -1],
      [redFlagStale990Years |-> -1],
      [redFlagRevenueDeclinePercent |-> -1],
      [redFlagRevenueDeclinePercent |-> 101],
      [redFlagRevenueDeclinePercent |-> 0],
      [redFlagRevenueDeclinePercent |-> 100],
      [redFlagHighExpenseRatio |-> 40, redFlagLowExpenseRatio |-> 130] }

ThresholdOverrides ==
    WeightOverrides \cup RevenueOverrides \cup ExpenseOverrides
    \cup YearsOverrides \cup FilingOverrides \cup CutoffOverrides
    \cup RedFlagOverrides

\* the defaults with at most n overrides merged in, one after the other
RECURSIVE Overridden(_)
Overridden(n) ==
    IF n = 0 THEN {DefaultThresholds}
    ELSE LET fewer == Overridden(n - 1)
         IN  fewer \cup {Merge(t, o) : t \in fewer, o \in ThresholdOverrides}

InitValidate ==
    /\ pc = "ready"
    /\ op = "none"
    /\ thresholds \in Overridden(MaxOverrides)
    /\ args = NullV
    /\ profile = NullV
    /\ filings = <<>>
    /\ now = 0
    /\ result = NoCall
    /\ heap = LoadedArrays

CallValidateThresholds ==
    /\ pc = "ready"
    /\ result' = [kind |-> "validation", value |-> validateThresholds(thresholds)]
    /\ pc' = "done"
    /\ op' = "validateThresholds"
    /\ UNCHANGED <<heap, thresholds, profile, filings, now, args>>

NextValidate == CallValidateThresholds

SpecValidate == InitValidate /\ [][NextValidate]_vars

\* The rules of the claim, each with the text that names it and whether t
\* satisfies it.
Rules(t) ==
    { [names |-> "All weights must be non-negative",
       ok |-> /\ t.weight501c3Status >= 0 /\ t.weightYearsOperating >= 0
              /\ t.weightRevenueRange >= 0 /\ t.weightOverheadRatio >= 0
              /\ t.weightRecent990 >= 0],
      [names |-> "Weights must sum to 100",
       ok |-> t.weight501c3Status + t.weightYearsOperating + t.weightRevenueRange
              + t.weightOverheadRatio + t.weightRecent990 = 100],
      [names |-> "revenueFailMin must be <= revenuePassMin",
       ok |-> t.revenueFailMin <= t.revenuePassMin],
      [names |-> "revenuePassMin must be <= revenuePassMax",
       ok |-> t.revenuePassMin <= t.revenuePassMax],
      [names |-> "revenuePassMax must be <= revenueReviewMax",
       ok |-> t.revenuePassMax <= t.revenueReviewMax],
      [names |-> "expenseRatioLowReview must be <= expenseRatioPassMin",
       ok |-> t.expenseRatioLowReview <= t.expenseRatioPassMin],
      [names |-> "expenseRatioPassMin must be <= expenseRatioPassMax",
       ok |-> t.expenseRatioPassMin <= t.expenseRatioPassMax],
      [names |-> "expenseRatioPassMax must be <= expenseRatioHighReview",
       ok |-> t.expenseRatioPassMax <= t.expenseRatioHighReview],
      [names |-> "yearsReviewMin must be <= yearsPassMin",
       ok |-> t.yearsReviewMin <= t.yearsPassMin],
      [names |-> "filing990PassMax must be <= filing990ReviewMax",
       ok |-> t.filing990PassMax <= t.filing990ReviewMax],
      [names |-> "scoreReviewMin must be <= scorePassMin",
       ok |-> t.scoreReviewMin <= t.scorePassMin],
      [names |-> "scorePassMin must be between 0 and 100",
       ok |-> t.scorePassMin \in 0..100],
      [names |-> "scoreReviewMin must be between 0 and 100",
       ok |-> t.scoreReviewMin \in 0..100],
      [names |-> "revenueFailMin must be non-negative",
       ok |-> t.revenueFailMin >= 0],
      [names |-> "revenueReviewMax must be non-negative",
       ok |-> t.revenueReviewMax >= 0],
      [names |-> "yearsReviewMin must be non-negative",
       ok |-> t.yearsReviewMin >= 0],
      [names |-> "yearsPassMin must be non-negative",
       ok |-> t.yearsPassMin >= 0],
      [names |-> "filing990PassMax must be non-negative",
       ok |-> t.filing990PassMax >= 0],
      [names |-> "filing990ReviewMax must be non-negative",
       ok |-> t.filing990ReviewMax >= 0],
      [names |-> "redFlagTooNewYears must be non-negative",
       ok |-> t.redFlagTooNewYears >= 0],
      [names |-> "redFlagStale990Years must be non-negative",
       ok |-> t.redFlagStale990Years >= 0],
      [names |-> "redFlagRevenueDeclinePercent must be between 0 and 1",
       ok |-> t.redFlagRevenueDeclinePercent \in 0..100] }

Violated(t) == {r.names : r \in {q \in Rules(t) : ~q.ok}}

Named(message) == {message[i] : i \in 1..Len(message)}

ValidateDone == pc = "done" /\ op = "validateThresholds"

\* C6: validateThresholds succeeds exactly when no rule is violated;
\* otherwise it throws one error whose message names every violated rule
\* (and no rule that holds), each once.
C6_ValidateReportsAll ==
    ValidateDone =>
        LET v == result.value
        IN  /\ v.threw <=> Violated(thresholds) # {}
            /\ Named(v.message) = Violated(thresholds)
            /\ Len(v.message) = Cardinality(Violated(thresholds))

\* C6 witness: a configuration violating three rules of three different
\* groups at once was rejected.
C6_Witness ==
    /\ ValidateDone
    /\ result.value.threw
    /\ Cardinality(Violated(thresholds)) >= 3
    /\ "All weights must be non-negative" \in Named(result.value.message)
    /\ "scorePassMin must be between 0 and 100" \in Named(result.value.message)

----------------------------------------------------------------------------
(* The five checks applied to profiles under validated thresholds *)

\* largest year count tried as a years-operating or filing-recency boundary
MaxYears == 4

RevenueBreaks == {0, 50000, 100000, 10000000, 50000000}

\* in hundredths
RatioBreaks == {50, 70, 100, 120}

YearsThresholds ==
    { Merge(DefaultThresholds, [yearsReviewMin |-> a, yearsPassMin |-> b]) :
        a \in 0..MaxYears, b \in 0..MaxYears }

RevenueThresholds ==
    { Merge(DefaultThresholds,
            [revenueFailMin |-> a, revenuePassMin |-> b,
             revenuePassMax |-> c, revenueReviewMax |-> d]) :
        a \in RevenueBreaks, b \in RevenueBreaks,
        c \in RevenueBreaks, d \in RevenueBreaks }

ExpenseThresholds ==
    { Merge(DefaultThresholds,
            [expenseRatioLowReview |-> a, expenseRatioPassMin |-> b,
             expenseRatioPassMax |-> c, expenseRatioHighReview |-> d]) :
        a \in RatioBreaks, b \in RatioBreaks,
        c \in RatioBreaks, d \in RatioBreaks }

FilingThresholds ==
    { Merge(DefaultThresholds, [filing990PassMax |-> a, filing990ReviewMax |-> b]) :
        a \in 0..MaxYears, b \in 0..MaxYears }

\* what loadConfig lets through: validateThresholds did not throw
CheckThresholds ==
    { t \in YearsThresholds \cup RevenueThresholds \cup ExpenseThresholds
            \cup FilingThresholds : Accepted(t) }

\* Date.now(): the first and the second day of November 2026
NowDays == {DaysFromCivil(2026, 11, 1), DaysFromCivil(2026, 11, 2)}

\* tax periods: "2025-11", "2024-11" (two years before the first clock
\* value), "2023-11", "2022-11", "2015-06", and the malformed "bad-data",
\* "2026-" (no month), "2026" (no dash), "2026-13" (no such month) and ""
TaxPeriods ==
    { Str(<<Digits(2025), Digits(11)>>),
      Str(<<Digits(2024), Digits(11)>>),
      Str(<<Digits(2023), Digits(11)>>),
      Str(<<Digits(2022), Digits(11)>>),
      Str(<<Digits(2015), Digits(6)>>),
      Str(<<TextPart, TextPart>>),
      Str(<<Digits(2026), EmptyPart>>),
      Str(<<Digits(2026)>>),
      Str(<<Digits(2026), Digits(13)>>),
      Str(<<EmptyPart>>) }

\* make990()
Base990 ==
    [ kind |-> "object",
      tax_period |-> Str(<<Digits(2025), Digits(11)>>),
      form_type |-> "990",
      total_revenue |-> Num(500000),
      overhead_ratio |-> Num(80),
      officer_compensation_ratio |-> UndefV ]

\* makeProfile()
BaseProfile ==
    [ ein |-> "95-3135649",
      name |-> "Test Nonprofit",
      ruling_date |-> "2010-01-01",
      years_operating |-> Num(15),
      subsection |-> "03",
      ntee_code |-> "K31",
      latest_990 |-> Base990,
      filing_count |-> 5 ]

YearValues == {NullV} \cup {Num(y) : y \in -1..(MaxYears + 1)}

RevenueValues ==
    {NullV, UndefV, Num(-50000), Num(-1), Num(1), Num(60000000)}
    \cup {Num(b + d) : b \in RevenueBreaks, d \in {-1, 0, 1}}

RatioValues ==
    {NullV, UndefV, NaNV, Num(-50), Num(0), Num(150)}
    \cup {Num(b + d) : b \in RatioBreaks, d \in {-1, 0, 1}}

With990(o) == Merge(BaseProfile, [latest_990 |-> Merge(Base990, o)])

CheckProfiles ==
    {Merge(BaseProfile, [years_operating |-> y]) : y \in YearValues}
    \cup {Merge(BaseProfile, [subsection |-> c]) : c \in {"03", "04", ""}}
    \cup {With990([total_revenue |-> r]) : r \in RevenueValues}
    \cup {With990([overhead_ratio |-> r]) : r \in RatioValues}
    \cup {Merge(With990([tax_period |-> tp]), [filing_count |-> n]) :
            tp \in TaxPeriods, n \in {0, 1}}
    \cup {Merge(BaseProfile, [latest_990 |-> NullV, filing_count |-> n]) :
            n \in {0, 5}}

InitChecks ==
    /\ pc = "ready"
    /\ op = "none"
    /\ thresholds \in CheckThresholds
    /\ profile \in CheckProfiles
    /\ now \in NowDays
    /\ args = NullV
    /\ filings = <<>>
    /\ result = NoCall
    /\ heap = LoadedArrays

Returned(name, check) ==
    /\ pc = "ready"
    /\ result' = [kind |-> "check", value |-> check]
    /\ pc' = "done"
    /\ op' = name
    /\ UNCHANGED <<heap, thresholds, profile, filings, now, args>>

CallCheck501c3Status ==
    Returned("check501c3Status", check501c3Status(profile, thresholds))

CallCheckYearsOperating ==
    Returned("checkYearsOperating", checkYearsOperating(profile, thresholds))

CallCheckRevenueRange ==
    Returned("checkRevenueRange", checkRevenueRange(profile, thresholds))

CallCheckOverheadRatio ==
    Returned("checkOverheadRatio", checkOverheadRatio(profile, thresholds))

CallCheckRecent990 ==
    Returned("checkRecent990", checkRecent990(profile, thresholds, now))

NextChecks ==
    \/ CallCheck501c3Status
    \/ CallCheckYearsOperating
    \/ CallCheckRevenueRange
    \/ CallCheckOverheadRatio
    \/ CallCheckRecent990

SpecChecks == InitChecks /\ [][NextChecks]_vars

Called(name) == pc = "done" /\ op = name


RevenueOf(p) == OptField(p.latest_990, "total_revenue")

\* C7: checkRevenueRange under validated thresholds: missing revenue (null,
\* undefined or no filing summary), negative revenue and zero revenue are
\* FAIL, each with its own detail; a positive revenue is FAIL below
\* revenueFailMin, REVIEW in [revenueFailMin, revenuePassMin), PASS in
\* [revenuePassMin, revenuePassMax], REVIEW in (revenuePassMax,
\* revenueReviewMax] and FAIL above revenueReviewMax.
C7_RevenuePartition ==
    Called("checkRevenueRange") =>
        LET rev == RevenueOf(profile)
            t == thresholds
            c == result.value
            missing == "No revenue data available"
            negative == "Negative revenue - data anomaly requires investigation"
            zero == "Zero revenue reported"
        IN  /\ c.passed = (c.result = "PASS")
            /\ missing # negative /\ missing # zero /\ negative # zero
            /\ IsNullish(rev) => (c.result = "FAIL" /\ c.detail = missing)
            /\ ~IsNullish(rev) =>
                LET v == rev.val
                IN  /\ v < 0 => (c.result = "FAIL" /\ c.detail = negative)
                    /\ v = 0 => (c.result = "FAIL" /\ c.detail = zero)
                    /\ v > 0 => c.detail \notin {missing, negative, zero}
                    /\ (0 < v /\ v < t.revenueFailMin) => c.result = "FAIL"
                    /\ (0 < v /\ t.revenueFailMin <= v /\ v < t.revenuePassMin)
                       => c.result = "REVIEW"
                    /\ (0 < v /\ t.revenuePassMin <= v /\ v <= t.revenuePassMax)
                       => c.result = "PASS"
                    /\ (0 < v /\ t.revenuePassMax < v /\ v <= t.revenueReviewMax)
                       => c.result = "REVIEW"
                    /\ (0 < v /\ v > t.revenueReviewMax) => c.result = "FAIL"

\* C7 witness: zero revenue failed with the zero message although
\* revenueFailMin is 0.
C7_Witness ==
    /\ Called("checkRevenueRange")
    /\ thresholds.revenueFailMin = 0
    /\ RevenueOf(profile) = Num(0)
    /\ result.value.result = "FAIL"
    /\ result.value.detail = "Zero revenue reported"

RatioOf(p) == OptField(p.latest_990, "overhead_ratio")

\* C8: checkOverheadRatio under validated thresholds: a missing, null or
\* NaN ratio is REVIEW; a ratio in [expenseRatioPassMin, expenseRatioPassMax]
\* is PASS; in (expenseRatioPassMax, expenseRatioHighReview] REVIEW; above
\* expenseRatioHighReview FAIL; in [expenseRatioLowReview,
\* expenseRatioPassMin) REVIEW; below expenseRatioLowReview FAIL.
C8_RatioPartition ==
    Called("checkOverheadRatio") =>
        LET ratio == RatioOf(profile)
            t == thresholds
            c == result.value
        IN  /\ c.passed = (c.result = "PASS")
            /\ (IsNullish(ratio) \/ ratio.kind = "NaN") => c.result = "REVIEW"
            /\ ratio.kind = "number" =>
                LET v == ratio.val
                IN  /\ (t.expenseRatioPassMin <= v /\ v <= t.expenseRatioPassMax)
                       => c.result = "PASS"
                    /\ (t.expenseRatioPassMax < v /\ v <= t.expenseRatioHighReview)
                       => c.result = "REVIEW"
                    /\ v > t.expenseRatioHighReview => c.result = "FAIL"
                    /\ (t.expenseRatioLowReview <= v /\ v < t.expenseRatioPassMin)
                       => c.result = "REVIEW"
                    /\ v < t.expenseRatioLowReview => c.result = "FAIL"

\* C8 witness: a NaN ratio was graded REVIEW.
C8_Witness ==
    /\ Called("checkOverheadRatio")
    /\ RatioOf(profile).kind = "NaN"
    /\ result.value.result = "REVIEW"

WellFormedPeriod(tp) ==
    /\ Len(tp.parts) = 2
    /\ tp.parts[1].k = "digits" /\ tp.parts[1].n \in 1000..9999
    /\ tp.parts[2].k = "digits" /\ tp.parts[2].n \in 1..12

\* days from the first day of a well-formed period to the clock value
DaysOld(tp, nowDay) == nowDay - DaysFromCivil(tp.parts[1].n, tp.parts[2].n, 1)

\* C10 as stated: checkRecent990 is FAIL when filing_count is 0 or there is
\* no filing summary; otherwise, with a the age in years of the tax period,
\* PASS when a <= filing990PassMax, REVIEW when filing990PassMax < a <=
\* filing990ReviewMax, FAIL when a > filing990ReviewMax; and a malformed tax
\* period always gives FAIL.
C10_AsStated ==
    Called("checkRecent990") =>
        LET s == profile.latest_990
            t == thresholds
            r == result.value.result
        IN  IF profile.filing_count = 0 \/ s.kind = "null"
            THEN r = "FAIL"
            ELSE IF WellFormedPeriod(s.tax_period)
            THEN LET d4 == DaysOld(s.tax_period, now) * 4
                 IN  /\ d4 <= t.filing990PassMax * 1461 => r = "PASS"
                     /\ (t.filing990PassMax * 1461 < d4
                         /\ d4 <= t.filing990ReviewMax * 1461) => r = "REVIEW"
                     /\ d4 > t.filing990ReviewMax * 1461 => r = "FAIL"
            ELSE r = "FAIL"


----------------------------------------------------------------------------
(* runTier1Checks and runRedFlagCheck applied to whole profiles *)

\* weight501c3Status, weightYearsOperating, weightRevenueRange,
\* weightOverheadRatio, weightRecent990; the last two vectors are not
\* accepted by validateThresholds (sum 120, a negative weight)
WeightVectors ==
    { <<30, 15, 20, 20, 15>>, <<20, 20, 20, 20, 20>>, <<1, 1, 1, 1, 96>>,
      <<100, 0, 0, 0, 0>>, <<25, 25, 25, 24, 1>>,
      <<40, 20, 20, 20, 20>>, <<-10, 50, 20, 20, 20>> }

\* scorePassMin, scoreReviewMin
CutoffPairs == { <<80, 50>>, <<60, 20>>, <<0, 0>> }

Tier1Candidates ==
    { Merge(DefaultThresholds,
            [weight501c3Status |-> w[1], weightYearsOperating |-> w[2],
             weightRevenueRange |-> w[3], weightOverheadRatio |-> w[4],
             weightRecent990 |-> w[5],
             scorePassMin |-> c[1], scoreReviewMin |-> c[2]]) :
        w \in WeightVectors, c \in CutoffPairs }

\* what loadConfig lets through
Tier1Thresholds == { t \in Tier1Candidates : Accepted(t) }

\* ruling date and years operating as buildProfile pairs them, and the
\* fixture's date with the years overridden to null
RulingAndYears ==
    { [ruling_date |-> "", years_operating |-> NullV],
      [ruling_date |-> "2010-01-01", years_operating |-> NullV],
      [ruling_date |-> "2010-01-01", years_operating |-> Num(0)],
      [ruling_date |-> "2010-01-01", years_operating |-> Num(2)],
      [ruling_date |-> "2010-01-01", years_operating |-> Num(15)] }

Tier1Summaries ==
    {NullV} \cup
    { Merge(Base990, [tax_period |-> tp, total_revenue |-> rev,
                      overhead_ratio |-> ratio,
                      officer_compensation_ratio |-> comp]) :
        tp \in { Str(<<Digits(2024), Digits(11)>>),
                 Str(<<Digits(2015), Digits(6)>>),
                 Str(<<TextPart, TextPart>>) },
        rev \in {UndefV, Num(0), Num(500000)},
        ratio \in {NaNV, Num(30), Num(80), Num(130)},
        comp \in {UndefV, Num(50)} }

Tier1Profiles ==
    { Merge(Merge(BaseProfile, ry),
            [subsection |-> c, latest_990 |-> s, filing_count |-> n]) :
        ry \in RulingAndYears, c \in {"03", "04", ""},
        s \in Tier1Summaries, n \in {0, 1} }

\* makeFiling({ tax_prd, totrevenue })
makeFiling(prd, rev) == [tax_prd |-> prd, totrevenue |-> Num(rev)]

\* no filing; a 60% decline, newest first; a 4% decline, oldest first
FilingLists ==
    { <<>>,
      <<makeFiling(202512, 200000), makeFiling(202412, 500000)>>,
      <<makeFiling(202412, 500000), makeFiling(202512, 480000)>> }

InitTier1 ==
    /\ pc = "ready"
    /\ op = "none"
    /\ thresholds \in Tier1Thresholds
    /\ profile \in Tier1Profiles
    /\ filings \in FilingLists
    /\ now \in NowDays
    /\ args = NullV
    /\ result = NoCall
    /\ heap = LoadedArrays

\* the summary of the result holds a new next_steps array
CallRunTier1Checks ==
    /\ pc = "ready"
    /\ LET r == runTier1Checks(profile, filings, thresholds, now)
       IN  /\ result' = [kind |-> "tier1", value |-> r]
           /\ heap' = SpreadCopy(heap, TemplateRef(r.recommendation)).arrays
    /\ pc' = "done"
    /\ op' = "runTier1Checks"
    /\ UNCHANGED <<thresholds, profile, filings, now, args>>

CallRunRedFlagCheck ==
    /\ pc = "ready"
    /\ result' = [kind |-> "redflags",
                  value |-> runRedFlagCheck(profile, filings, thresholds, now)]
    /\ pc' = "done"
    /\ op' = "runRedFlagCheck"
    /\ UNCHANGED <<heap, thresholds, profile, filings, now, args>>

NextTier1 ==
    \/ CallRunTier1Checks
    \/ CallRunRedFlagCheck

SpecTier1 == InitTier1 /\ [][NextTier1]_vars

HasFlag(flags, severity, type) ==
    \E i \in 1..Len(flags) :
        flags[i].severity = severity /\ flags[i].type = type

\* C2: for a profile whose subsection is not "03" (the empty string
\* included), any filing list and validated thresholds, runTier1Checks
\* returns a HIGH not_501c3 flag among red_flags, recommendation REJECT and
\* passed = false, whatever the score.
C2_Not501c3Rejected ==
    (Called("runTier1Checks") /\ profile.subsection # "03") =>
        /\ HasFlag(result.value.red_flags, "HIGH", "not_501c3")
        /\ result.value.recommendation = "REJECT"
        /\ result.value.passed = FALSE

\* C2 witness: an empty subsection rejected although the score is at least
\* 80 and reaches scorePassMin, with not_501c3 the only flag.
C2_Witness ==
    /\ Called("runTier1Checks")
    /\ profile.subsection = ""
    /\ result.value.score >= 80
    /\ result.value.score >= thresholds.scorePassMin
    /\ Len(result.value.red_flags) = 1
    /\ result.value.recommendation = "REJECT"

\* C5: for thresholds accepted by validateThresholds (integer weights), any
\* profile and filing list, the score of runTier1Checks is an integer from
\* 0 to 100.
C5_ScoreInRange ==
    Called("runTier1Checks") => result.value.score \in 0..100

\* C5 witness: an odd weight counted half (a REVIEW check), so that the sum
\* was rounded, under weights other than the defaults.
C5_Witness ==
    /\ Called("runTier1Checks")
    /\ thresholds.weight501c3Status # DefaultThresholds.weight501c3Status
    /\ \E i \in 1..Len(result.value.checks) :
          /\ result.value.checks[i].result = "REVIEW"
          /\ result.value.checks[i].weight % 2 = 1
    /\ result.value.score \in 1..99


----------------------------------------------------------------------------
(* Sector thresholds: sector-thresholds.ts *)

\* A sector (NTEE) code is the sequence of its characters.
UpperLetters ==
    << "A", "B", "C", "D", "E", "F", "G", "H", "I", "J", "K", "L", "M",
       "N", "O", "P", "Q", "R", "S", "T", "U", "V", "W", "X", "Y", "Z" >>

LowerLetters ==
    << "a", "b", "c", "d", "e", "f", "g", "h", "i", "j", "k", "l", "m",
       "n", "o", "p", "q", "r", "s", "t", "u", "v", "w", "x", "y", "z" >>

\* String.prototype.toUpperCase() on one character
toUpperCase(ch) ==
    IF \E i \in 1..Len(LowerLetters) : LowerLetters[i] = ch
    THEN UpperLetters[CHOOSE i \in 1..Len(LowerLetters) : LowerLetters[i] = ch]
    ELSE ch

\* variant: the arts entry with its two revenue minima exchanged
SECTOR_OVERRIDES_MinimaExchanged ==
    [ K |-> [ expenseRatioPassMin |-> 60,
              expenseRatioPassMax |-> 130,
              expenseRatioHighReview |-> 150,
              redFlagHighExpenseRatio |-> 150,
              redFlagLowExpenseRatio |-> 40 ],
      A |-> [ revenueFailMin |-> 50000,
              revenuePassMin |-> 25000,
              expenseRatioPassMin |-> 60,
              redFlagVeryLowRevenue |-> 15000 ],
      E |-> [ revenuePassMax |-> 50000000,
              revenueReviewMax |-> 100000000,
              redFlagHighCompensation |-> Num(50),
              redFlagModerateCompensation |-> Num(35) ] ]

\* SECTOR_OVERRIDES; ratios in hundredths
SECTOR_OVERRIDES ==
    [ K |-> [ expenseRatioPassMin |-> 60,
              expenseRatioPassMax |-> 130,
              expenseRatioHighReview |-> 150,
              redFlagHighExpenseRatio |-> 150,
              redFlagLowExpenseRatio |-> 40 ],
      A |-> [ revenueFailMin |-> 25000,
              revenuePassMin |-> 50000,
              expenseRatioPassMin |-> 60,
              redFlagVeryLowRevenue |-> 15000 ],
      E |-> [ revenuePassMax |-> 50000000,
              revenueReviewMax |-> 100000000,
              redFlagHighCompensation |-> Num(50),
              redFlagModerateCompensation |-> Num(35) ] ]

\* variant: the first character compared as it is, without toUpperCase
getNteeMajorCategoryCaseSensitive(nteeCode) ==
    IF nteeCode = <<>> THEN UndefV
    ELSE LET firstChar == nteeCode[1]
         IN  IF \E i \in 1..Len(UpperLetters) : UpperLetters[i] = firstChar
             THEN [kind |-> "string", val |-> firstChar]
             ELSE UndefV

\* getNteeMajorCategory(nteeCode): the first character in upper case when it
\* is a letter from A to Z, undefined otherwise
getNteeMajorCategory(nteeCode) ==
    IF nteeCode = <<>> THEN UndefV
    ELSE LET firstChar == toUpperCase(nteeCode[1])
         IN  IF \E i \in 1..Len(UpperLetters) : UpperLetters[i] = firstChar
             THEN [kind |-> "string", val |-> firstChar]
             ELSE UndefV

\* resolveThresholds(base, nteeCode): `fresh` tells whether the returned
\* object is a new one ({ ...base, ...overrides }) or base itself;
\* `base` is the base object after the call (the function never writes
\* to it)
resolveThresholds(base, nteeCode) ==
    LET category == getNteeMajorCategory(nteeCode)
    IN  IF category.kind = "undefined"
        THEN [fresh |-> FALSE, value |-> base, base |-> base]
        ELSE IF category.val \notin DOMAIN SECTOR_OVERRIDES
        THEN [fresh |-> FALSE, value |-> base, base |-> base]
        ELSE [fresh |-> TRUE,
              value |-> Merge(base, SECTOR_OVERRIDES[category.val]),
              base |-> base]

----------------------------------------------------------------------------
(* getRedFlags: runRedFlagCheck under the thresholds resolved for the
   profile's sector code. args holds the resolved thresholds. *)

\* "", "E20", "K31", "a", "99", "Z"
SectorCodes ==
    { <<>>, <<"E", "2", "0">>, <<"K", "3", "1">>, <<"a">>, <<"9", "9">>,
      <<"Z">> }

\* base thresholds: the red-flag triggers moved one rule at a time (the
\* expense-ratio triggers in hundredths, either way round)
RedFlagBases ==
    { Merge(DefaultThresholds, [redFlagStale990Years |-> y]) : y \in {0, 2, 4} }
    \cup { Merge(DefaultThresholds,
                 [redFlagHighExpenseRatio |-> h, redFlagLowExpenseRatio |-> l]) :
             h \in {50, 120}, l \in {50, 120} }
    \cup { Merge(DefaultThresholds, [redFlagVeryLowRevenue |-> v]) :
             v \in {0, 25000} }
    \cup { Merge(DefaultThresholds, [redFlagTooNewYears |-> y]) : y \in {0, 1, 2} }

DeclineBases ==
    { Merge(DefaultThresholds, [redFlagRevenueDeclinePercent |-> d]) :
        d \in {0, 50, 100} }

FlagRatioValues ==
    {NullV, UndefV, NaNV}
    \cup {Num(b + d) : b \in {40, 50, 120, 150}, d \in {-1, 0, 1}}

FlagRevenueValues ==
    {NullV, UndefV, Num(-1)}
    \cup {Num(b + d) : b \in {0, 15000, 25000}, d \in {-1, 0, 1}}

\* officer_compensation_ratio in hundredths
CompensationValues ==
    {NullV, UndefV, NaNV, Num(-10), Num(0), Num(10)}
    \cup {Num(b + d) : b \in {35, 50}, d \in {-1, 0, 1}}

FlagSummaries ==
    {NullV}
    \cup {Merge(Base990, [tax_period |-> tp]) : tp \in TaxPeriods}
    \cup {Merge(Base990, [overhead_ratio |-> r]) : r \in FlagRatioValues}
    \cup {Merge(Base990, [total_revenue |-> r]) : r \in FlagRevenueValues}
    \cup {Merge(Base990, [officer_compensation_ratio |-> r]) :
            r \in CompensationValues}

\* the fixture profile with its ruling date, years, subsection and filing
\* count varied, and with each filing summary
FlagProfilesNoSector ==
    { Merge(Merge(BaseProfile, ry),
            [subsection |-> c, latest_990 |-> s, filing_count |-> n]) :
        ry \in RulingAndYears \cup
              {[ruling_date |-> "2010-01-01", years_operating |-> Num(1)]},
        c \in {"03", ""}, s \in {NullV, Base990}, n \in {0, 1} }
    \cup { Merge(BaseProfile, [latest_990 |-> s]) : s \in FlagSummaries }

FlagProfiles ==
    { Merge(p, [ntee_code |-> code]) :
        p \in FlagProfilesNoSector, code \in SectorCodes }

\* period codes and revenues of the raw filings
FilingPeriods == {202312, 202412, 202512}

FilingRevenues == {NullV, Num(-100), Num(0), Num(200000), Num(500000)}

RawFilings ==
    { [tax_prd |-> prd, totrevenue |-> rev] :
        prd \in FilingPeriods, rev \in FilingRevenues }

MaxFilings == 3

RawFilingLists == SeqsUpTo(RawFilings, MaxFilings)

InitRedFlags ==
    /\ pc = "ready"
    /\ op = "none"
    /\ args = NullV
    /\ result = NoCall
    /\ heap = LoadedArrays
    /\ \/ /\ thresholds \in RedFlagBases
          /\ profile \in FlagProfiles
          /\ filings \in FilingLists
          /\ now \in NowDays
       \/ /\ thresholds \in DeclineBases
          /\ now = DaysFromCivil(2026, 11, 1)
          /\ profile = Merge(BaseProfile, [ntee_code |-> <<>>])
          /\ filings \in RawFilingLists

\* tools.ts getRedFlags, after the lookup: runRedFlagCheck(profile, filings,
\* resolveThresholds(thresholds, profile.ntee_code))
CallGetRedFlags ==
    /\ pc = "ready"
    /\ LET t == resolveThresholds(thresholds, profile.ntee_code).value
       IN  /\ args' = t
           /\ result' = [kind |-> "redflags",
                         value |-> runRedFlagCheck(profile, filings, t, now)]
    /\ pc' = "done"
    /\ op' = "getRedFlags"
    /\ UNCHANGED <<heap, thresholds, profile, filings, now>>

NextRedFlags == CallGetRedFlags

SpecRedFlags == InitRedFlags /\ [][NextRedFlags]_vars

\* a flag of the type is among the flags returned
Emitted(type) ==
    \E i \in 1..Len(result.value.flags) : result.value.flags[i].type = type

\* a flag of the type and the severity is among the flags returned
EmittedAs(severity, type) == HasFlag(result.value.flags, severity, type)

\* both parts of the period convert to finite numbers
YieldsYearAndMonth(tp) ==
    /\ Len(tp.parts) >= 2
    /\ tp.parts[1].k # "text"
    /\ tp.parts[2].k # "text"

\* days from the first day of the month the parts denote to the clock value
PeriodDaysOld(tp, nowDay) ==
    LET year == IF tp.parts[1].k = "digits" THEN tp.parts[1].n ELSE 0
        month == IF tp.parts[2].k = "digits" THEN tp.parts[2].n ELSE 0
    IN  nowDay - DateOf(year, month - 1)

\* C11 as stated: the HIGH stale_990 flag is emitted exactly when the
\* profile has a filing summary whose tax period is parseable (yields a
\* year and a month) and whose age is strictly greater than
\* redFlagStale990Years; an age equal to the threshold does not trigger it,
\* and a malformed (unparseable) tax period produces no stale_990 flag.
C11_AsStated ==
    Called("getRedFlags") =>
        LET s == profile.latest_990
        IN  Emitted("stale_990") <=>
                /\ s.kind # "null"
                /\ YieldsYearAndMonth(s.tax_period)
                /\ PeriodDaysOld(s.tax_period, now) * 4
                     > args.redFlagStale990Years * 1461


\* C11: the HIGH stale_990 flag is emitted exactly when the profile has a
\* filing summary with a non-empty tax period whose age is strictly
\* greater than redFlagStale990Years, a period whose year or month does
\* not convert to a finite number counting as infinitely old; an age equal
\* to the threshold does not trigger it.
C11_StaleFlag ==
    Called("getRedFlags") =>
        LET s == profile.latest_990
        IN  /\ Emitted("stale_990") <=>
                /\ s.kind # "null"
                /\ ~Falsy(s.tax_period)
                /\ \/ ~YieldsYearAndMonth(s.tax_period)
                   \/ PeriodDaysOld(s.tax_period, now) * 4
                        > args.redFlagStale990Years * 1461
            /\ Emitted("stale_990") => EmittedAs("HIGH", "stale_990")

\* C11 witness: a filing exactly 4 years old on the first clock value, not
\* flagged under redFlagStale990Years = 4.
C11_Witness ==
    /\ Called("getRedFlags")
    /\ profile.latest_990.kind # "null"
    /\ profile.latest_990.tax_period = Str(<<Digits(2022), Digits(11)>>)
    /\ now = DaysFromCivil(2026, 11, 1)
    /\ PeriodDaysOld(profile.latest_990.tax_period, now) * 4 = 4 * 1461
    /\ args.redFlagStale990Years = 4
    /\ ~Emitted("stale_990")

\* the ratio of the filing summary, when there is a summary
FlagRatio == OptField(profile.latest_990, "overhead_ratio")

\* C12 as stated: for every thresholds value the two expense-ratio rules
\* are independent: very_high_overhead (HIGH) is emitted iff the ratio is
\* present and ratio > redFlagHighExpenseRatio; low_fund_deployment
\* (MEDIUM) is emitted iff the ratio is present and ratio <
\* redFlagLowExpenseRatio; a ratio equal to a threshold, or a null or
\* missing one, triggers neither.
C12_AsStated ==
    Called("getRedFlags") =>
        LET ratio == FlagRatio
            present == ratio.kind = "number"
        IN  /\ EmittedAs("HIGH", "very_high_overhead")
                <=> (present /\ ratio.val > args.redFlagHighExpenseRatio)
            /\ EmittedAs("MEDIUM", "low_fund_deployment")
                <=> (present /\ ratio.val < args.redFlagLowExpenseRatio)
            /\ Emitted("very_high_overhead")
                => EmittedAs("HIGH", "very_high_overhead")
            /\ Emitted("low_fund_deployment")
                => EmittedAs("MEDIUM", "low_fund_deployment")


\* C12: very_high_overhead (HIGH) is emitted iff the ratio is present and
\* ratio > redFlagHighExpenseRatio; low_fund_deployment (MEDIUM) is emitted
\* iff the ratio is present, is not above redFlagHighExpenseRatio and is <
\* redFlagLowExpenseRatio; a ratio equal to a threshold, or a null, missing
\* or NaN one, triggers neither. No ratio gets both flags.
C12_ExpenseRatioFlags ==
    Called("getRedFlags") =>
        LET ratio == FlagRatio
            present == ratio.kind = "number"
        IN  /\ EmittedAs("HIGH", "very_high_overhead")
                <=> (present /\ ratio.val > args.redFlagHighExpenseRatio)
            /\ EmittedAs("MEDIUM", "low_fund_deployment")
                <=> /\ present
                    /\ ~(ratio.val > args.redFlagHighExpenseRatio)
                    /\ ratio.val < args.redFlagLowExpenseRatio
            /\ Emitted("very_high_overhead")
                => EmittedAs("HIGH", "very_high_overhead")
            /\ Emitted("low_fund_deployment")
                => EmittedAs("MEDIUM", "low_fund_deployment")
            /\ ~(Emitted("very_high_overhead") /\ Emitted("low_fund_deployment"))

\* C12 witness: a ratio above redFlagHighExpenseRatio and below
\* redFlagLowExpenseRatio, flagged as very high only.
C12_Witness ==
    /\ Called("getRedFlags")
    /\ FlagRatio.kind = "number"
    /\ FlagRatio.val > args.redFlagHighExpenseRatio
    /\ FlagRatio.val < args.redFlagLowExpenseRatio
    /\ Emitted("very_high_overhead")
    /\ ~Emitted("low_fund_deployment")

\* index of the filing that sorting by descending period code puts first,
\* leaving out index `skip`: the greatest code, the earliest in the list
\* among equal codes
TopIndex(fs, skip) ==
    CHOOSE i \in (1..Len(fs)) \ {skip} :
        \A j \in (1..Len(fs)) \ {skip} :
            \/ fs[i].tax_prd > fs[j].tax_prd
            \/ (fs[i].tax_prd = fs[j].tax_prd /\ i <= j)

\* the revenue decline rule on a latest and a previous filing, the decline
\* threshold in hundredths
Declined(latest, previous, t) ==
    /\ latest.totrevenue.kind = "number"
    /\ previous.totrevenue.kind = "number"
    /\ previous.totrevenue.val > 0
    /\ latest.totrevenue.val >= 0
    /\ (previous.totrevenue.val - latest.totrevenue.val) * 100
         > t.redFlagRevenueDeclinePercent * previous.totrevenue.val

DistinctPeriods(fs) ==
    \A i, j \in 1..Len(fs) : i # j => fs[i].tax_prd # fs[j].tax_prd

\* the filings in another order
Reordered(fs, perm) == [i \in 1..Len(fs) |-> fs[perm[i]]]

\* C13 as stated: with two or more filings the MEDIUM revenue_decline flag
\* is emitted iff the previous revenue (second greatest period code) is > 0
\* and (previous - latest) / previous is finite and > 
\* redFlagRevenueDeclinePercent; fewer than two filings never emit it; the
\* order of the list does not matter.
C13_AsStated ==
    Called("getRedFlags") =>
        IF Len(filings) < 2 THEN ~Emitted("revenue_decline")
        ELSE LET i1 == TopIndex(filings, 0)
                 latest == filings[i1].totrevenue
                 previous == filings[TopIndex(filings, i1)].totrevenue
             IN  /\ (latest.kind = "number" /\ previous.kind = "number") =>
                        (EmittedAs("MEDIUM", "revenue_decline")
                         <=> /\ previous.val > 0
                             /\ (previous.val - latest.val) * 100
                                  > args.redFlagRevenueDeclinePercent * previous.val)
                 /\ \A perm \in Permutations(1..Len(filings)) :
                        HasFlag(detectRedFlags(profile, Reordered(filings, perm),
                                               args, now),
                                "MEDIUM", "revenue_decline")
                        <=> EmittedAs("MEDIUM", "revenue_decline")

\* C13: with two or more filings, latest and previous being the first two
\* after the stable sort by descending period code, the MEDIUM
\* revenue_decline flag is emitted iff both revenues are present, previous
\* > 0, latest >= 0 and (previous - latest) / previous >
\* redFlagRevenueDeclinePercent; a previous revenue of zero or below never
\* emits it; fewer than two filings never emit it; and when the period
\* codes are distinct the order of the list does not matter.
C13_RevenueDecline ==
    Called("getRedFlags") =>
        /\ Emitted("revenue_decline") => EmittedAs("MEDIUM", "revenue_decline")
        /\ Len(filings) < 2 => ~Emitted("revenue_decline")
        /\ Len(filings) >= 2 =>
            LET i1 == TopIndex(filings, 0)
                latest == filings[i1]
                previous == filings[TopIndex(filings, i1)]
            IN  /\ Emitted("revenue_decline")
                    <=> Declined(latest, previous, args)
                /\ (previous.totrevenue.kind = "number"
                    /\ previous.totrevenue.val <= 0)
                    => ~Emitted("revenue_decline")
                /\ DistinctPeriods(filings) =>
                    \A perm \in Permutations(1..Len(filings)) :
                        HasFlag(detectRedFlags(profile, Reordered(filings, perm),
                                               args, now),
                                "MEDIUM", "revenue_decline")
                        <=> Emitted("revenue_decline")

\* C13 witness: three filings with distinct period codes given out of
\* order, whose two latest show a decline above the threshold.
C13_Witness ==
    /\ Called("getRedFlags")
    /\ Len(filings) = 3
    /\ DistinctPeriods(filings)
    /\ filings[1].tax_prd < filings[2].tax_prd
    /\ filings[3].tax_prd < filings[1].tax_prd
    /\ Emitted("revenue_decline")


\* C14: the MEDIUM very_low_revenue flag is emitted exactly when a filing
\* summary is present with a non-null revenue strictly below
\* redFlagVeryLowRevenue; a revenue of exactly 0 triggers it (0 is below a
\* positive threshold), a null or missing revenue never does.
C14_VeryLowRevenue ==
    Called("getRedFlags") =>
        LET s == profile.latest_990
            revenue == RevenueOf(profile)
        IN  /\ Emitted("very_low_revenue")
                <=> /\ s.kind # "null"
                    /\ revenue.kind = "number"
                    /\ revenue.val < args.redFlagVeryLowRevenue
            /\ Emitted("very_low_revenue")
                => EmittedAs("MEDIUM", "very_low_revenue")
            /\ (s.kind # "null" /\ revenue = Num(0)
                /\ args.redFlagVeryLowRevenue > 0)
                => Emitted("very_low_revenue")
            /\ IsNullish(revenue) => ~Emitted("very_low_revenue")

\* C14 witness: a revenue of exactly 0 flagged as very low.
C14_Witness ==
    /\ Called("getRedFlags")
    /\ profile.latest_990.kind # "null"
    /\ RevenueOf(profile) = Num(0)
    /\ EmittedAs("MEDIUM", "very_low_revenue")


\* the red flags documented with severity HIGH
DocumentedHigh ==
    {"no_990_on_file", "not_501c3", "no_ruling_date", "stale_990",
     "very_high_overhead"}

\* C15 as stated: under base or sector-adjusted thresholds the only flags
\* of severity HIGH that are emitted are no_990_on_file, not_501c3,
\* no_ruling_date, stale_990 and very_high_overhead; every other flag
\* emitted is MEDIUM.
C15_AsStated ==
    Called("getRedFlags") =>
        \A i \in 1..Len(result.value.flags) :
            LET flag == result.value.flags[i]
            IN  IF flag.type \in DocumentedHigh
                THEN flag.severity = "HIGH"
                ELSE flag.severity = "MEDIUM"


\* the number of flags of severity HIGH
HighCount(flags) ==
    Cardinality({i \in 1..Len(flags) : flags[i].severity = "HIGH"})

\* filing_count 0, no filing summary, empty classification, no ruling date
BareMinimum(p) ==
    /\ p.filing_count = 0
    /\ p.latest_990.kind = "null"
    /\ p.subsection = ""
    /\ p.years_operating.kind = "null"

\* C16: for a profile with filing_count 0, no filing summary, an empty
\* classification code and years_operating null, runTier1Checks under the
\* default thresholds returns at least three HIGH flags (no_990_on_file,
\* not_501c3, no_ruling_date), score 10 (only the expense-ratio check
\* scores, as REVIEW) and recommendation REJECT.
C16_BareMinimumRejected ==
    (Called("runTier1Checks") /\ thresholds = DefaultThresholds
     /\ BareMinimum(profile)) =>
        LET r == result.value
        IN  /\ HighCount(r.red_flags) >= 3
            /\ HasFlag(r.red_flags, "HIGH", "no_990_on_file")
            /\ HasFlag(r.red_flags, "HIGH", "not_501c3")
            /\ HasFlag(r.red_flags, "HIGH", "no_ruling_date")
            /\ r.score = 10
            /\ \A i \in 1..Len(r.checks) :
                  r.checks[i].result =
                      IF r.checks[i].name = "overhead_ratio"
                      THEN "REVIEW" ELSE "FAIL"
            /\ r.recommendation = "REJECT"

\* C16 witness: the bare profile without a ruling date, evaluated under the
\* defaults with two raw filings on the side.
C16_Witness ==
    /\ Called("runTier1Checks")
    /\ thresholds = DefaultThresholds
    /\ BareMinimum(profile)
    /\ profile.ruling_date = ""
    /\ Len(filings) = 2
    /\ result.value.score = 10
    /\ result.value.recommendation = "REJECT"


----------------------------------------------------------------------------
(* runTier1Checks on profiles at the pass boundaries of the defaults *)

\* classification, ruling date and years, filing count, and a filing
\* summary with revenue, ratio (hundredths) and tax period on either side
\* of the default pass boundaries; "2024-10" is more than two years before
\* the clock values, "2024-11" is not on the first of them
BoundarySummaries ==
    { Merge(Base990, [tax_period |-> tp, total_revenue |-> Num(rev),
                      overhead_ratio |-> Num(ratio),
                      officer_compensation_ratio |-> comp]) :
        tp \in { Str(<<Digits(2024), Digits(10)>>),
                 Str(<<Digits(2024), Digits(11)>>),
                 Str(<<Digits(2026), Digits(10)>>) },
        rev \in {99999, 100000, 10000000, 10000001},
        ratio \in {69, 70, 100, 101},
        comp \in {UndefV, Num(60)} }

BoundaryProfiles ==
    { Merge(BaseProfile,
            [subsection |-> c, ruling_date |-> rd, years_operating |-> Num(y),
             latest_990 |-> s, filing_count |-> n]) :
        c \in {"03", "04"}, rd \in {"", "2010-01-01"}, y \in {2, 3, 15},
        s \in BoundarySummaries, n \in {0, 1, 5} }

InitBoundary ==
    /\ pc = "ready"
    /\ op = "none"
    /\ thresholds = DefaultThresholds
    /\ profile \in BoundaryProfiles
    /\ filings \in { <<>>, <<makeFiling(202512, 500000)>>,
                     <<makeFiling(202512, 200000), makeFiling(202412, 500000)>> }
    /\ now \in NowDays
    /\ args = NullV
    /\ result = NoCall
    /\ heap = LoadedArrays

SpecBoundary == InitBoundary /\ [][NextTier1]_vars

\* the conditions of a healthy profile under the default thresholds
Healthy(p, fs, nowDay) ==
    /\ p.subsection = "03"
    /\ p.ruling_date # ""
    /\ p.years_operating.kind = "number" /\ p.years_operating.val >= 3
    /\ p.latest_990.kind # "null"
    /\ p.latest_990.total_revenue.kind = "number"
    /\ p.latest_990.total_revenue.val \in 100000..10000000
    /\ p.latest_990.overhead_ratio.kind = "number"
    /\ p.latest_990.overhead_ratio.val \in 70..100
    /\ WellFormedPeriod(p.latest_990.tax_period)
    /\ DaysOld(p.latest_990.tax_period, nowDay) * 4 <= 2 * 1461
    /\ p.filing_count >= 1
    /\ Len(fs) = 1

CheckNames ==
    << "501c3_status", "years_operating", "revenue_range", "overhead_ratio",
       "recent_990" >>

\* C18: every result of runTier1Checks has exactly five check outcomes, in
\* the order 501c3_status, years_operating, revenue_range, overhead_ratio,
\* recent_990, each with passed = (result is PASS) and the configured
\* weight of its check; the overall passed is true iff the recommendation
\* is PASS.
C18_FiveChecks ==
    Called("runTier1Checks") =>
        LET r == result.value
            weights == Weights(thresholds)
        IN  /\ Len(r.checks) = 5
            /\ \A i \in 1..5 :
                  /\ r.checks[i].name = CheckNames[i]
                  /\ r.checks[i].result \in {"PASS", "REVIEW", "FAIL"}
                  /\ r.checks[i].passed = (r.checks[i].result = "PASS")
                  /\ r.checks[i].weight = weights[i]
            /\ r.passed = (r.recommendation = "PASS")

\* C18 witness: under weights other than the defaults, the first check
\* failed and the later ones were still evaluated, one of them to REVIEW
\* and one to PASS.
C18_Witness ==
    /\ Called("runTier1Checks")
    /\ Weights(thresholds) = <<25, 25, 25, 24, 1>>
    /\ result.value.checks[1].result = "FAIL"
    /\ \E i \in 2..5 : result.value.checks[i].result = "REVIEW"
    /\ \E i \in 2..5 : result.value.checks[i].passed
    /\ result.value.passed = FALSE


----------------------------------------------------------------------------
(* resolveThresholds on a base and a sector code, once and then once more
   on its own result. args holds the sector code. *)

\* the sector codes, and "k31", "-K", " A"
ResolveCodes ==
    SectorCodes \cup { <<"k", "3", "1">>, <<"-", "K">>, <<" ", "A">> }

\* bases: the thresholds of the other harnesses, and bases that already
\* set the fields a sector entry sets
ResolveBases ==
    RedFlagBases \cup DeclineBases \cup Tier1Thresholds
    \cup { Merge(DefaultThresholds,
                 [revenueFailMin |-> 0, revenuePassMin |-> 0,
                  redFlagVeryLowRevenue |-> 0]),
           Merge(DefaultThresholds,
                 [redFlagHighCompensation |-> Num(80),
                  redFlagModerateCompensation |-> Num(60)]) }

InitResolve ==
    /\ pc = "ready"
    /\ op = "none"
    /\ thresholds \in ResolveBases
    /\ profile = BaseProfile
    /\ filings = <<>>
    /\ now \in NowDays
    /\ args \in ResolveCodes
    /\ result = NoCall
    /\ heap = LoadedArrays

CallResolveThresholds ==
    /\ pc = "ready"
    /\ LET r == resolveThresholds(thresholds, args)
       IN  /\ result' = [kind |-> "thresholds", value |-> r]
           /\ thresholds' = r.base
    /\ pc' = "done"
    /\ op' = "resolveThresholds"
    /\ UNCHANGED <<heap, profile, filings, now, args>>

\* resolveThresholds(resolveThresholds(base, code), code)
CallResolveAgain ==
    /\ pc = "done"
    /\ op = "resolveThresholds"
    /\ LET r == resolveThresholds(result.value.value, args)
       IN  result' = [kind |-> "thresholds", value |-> r]
    /\ pc' = "again"
    /\ UNCHANGED <<heap, op, thresholds, profile, filings, now, args>>

NextResolve ==
    \/ CallResolveThresholds
    \/ CallResolveAgain

SpecResolve == InitResolve /\ [][NextResolve]_vars

\* the entry of the override table a code selects, or none
EntryLetter(code) ==
    IF code = <<>> THEN "none"
    ELSE CASE code[1] \in {"K", "k"} -> "K"
           [] code[1] \in {"A", "a"} -> "A"
           [] code[1] \in {"E", "e"} -> "E"
           [] OTHER -> "none"

\* C19: resolveThresholds(base, sectorCode) returns base itself when the
\* code is empty, does not start with a letter, or starts with a letter
\* (in either case) without an entry in the override table; otherwise it
\* returns a new configuration equal to base in every field except exactly
\* the fields of the letter's entry, which take the entry's values. The
\* base is left unmodified, and resolving the result again with the same
\* code gives the same configuration.
C19_ResolveFrame ==
    [][ /\ (pc = "ready" /\ pc' = "done") =>
            LET r == result'.value
                letter == EntryLetter(args)
            IN  /\ thresholds' = thresholds
                /\ letter = "none" => (~r.fresh /\ r.value = thresholds)
                /\ letter # "none" =>
                    /\ r.fresh
                    /\ DOMAIN r.value = DOMAIN thresholds
                    /\ \A f \in DOMAIN r.value :
                          r.value[f] =
                              IF f \in DOMAIN SECTOR_OVERRIDES[letter]
                              THEN SECTOR_OVERRIDES[letter][f]
                              ELSE thresholds[f]
        /\ (pc = "done" /\ pc' = "again") =>
            /\ result'.value.value = result.value.value
            /\ thresholds' = thresholds
      ]_vars

\* C19 witness: the lower-case code "a" resolved twice over a base that
\* sets the arts entry's revenue fields to other values.
C19_Witness ==
    /\ pc = "again"
    /\ args = <<"a">>
    /\ thresholds.revenueFailMin = 0
    /\ result.value.fresh
    /\ result.value.value.revenueFailMin = 25000
    /\ result.value.value.revenuePassMax = thresholds.revenuePassMax


----------------------------------------------------------------------------
(* generateSummary called repeatedly while the callers change the
   next_steps arrays they were given. args lists the arrays handed out. *)

MaxCalls == 2

MaxSteps == 4

InitSummary ==
    /\ pc = "ready"
    /\ op = "none"
    /\ thresholds = DefaultThresholds
    /\ profile = BaseProfile
    /\ filings = <<>>
    /\ now \in NowDays
    /\ args = <<>>
    /\ result = NoCall
    /\ heap = LoadedArrays

\* generateSummary(name, score, recommendation, [], [], years): the
\* returned next_steps is the array made by [...config.next_steps], with
\* the elements config.next_steps has at the time of the call
CallGenerateSummary ==
    /\ pc = "ready"
    /\ Len(args) < MaxCalls
    /\ \E recommendation \in {"PASS", "REVIEW", "REJECT"}, score \in {10, 100} :
          LET summary == generateSummary(profile.name, score, recommendation,
                                         <<>>, <<>>, profile.years_operating)
              copy == SpreadCopy(heap, TemplateRef(recommendation))
          IN  /\ heap' = copy.arrays
              /\ result' = [kind |-> "summary",
                            recommendation |-> recommendation,
                            ref |-> copy.ref,
                            value |-> [summary EXCEPT
                                         !.next_steps = copy.arrays[copy.ref]]]
              /\ args' = Append(args, [ref |-> copy.ref,
                                       recommendation |-> recommendation])
    /\ op' = "generateSummary"
    /\ UNCHANGED <<pc, thresholds, profile, filings, now>>

\* what a caller can do to an array: push, pop, assign the first element
Mutations(a) ==
    (IF Len(a) < MaxSteps THEN {Append(a, "caller's step")} ELSE {})
    \cup (IF Len(a) > 0
          THEN {SubSeq(a, 1, Len(a) - 1), [a EXCEPT ![1] = "changed"]}
          ELSE {})

\* a caller changes a next_steps array it was given earlier
MutateNextSteps ==
    /\ pc = "ready"
    /\ \E k \in 1..Len(args) : \E a \in Mutations(heap[args[k].ref]) :
          heap' = [heap EXCEPT ![args[k].ref] = a]
    /\ op' = "mutate"
    /\ UNCHANGED <<pc, thresholds, profile, filings, now, args, result>>

NextSummary ==
    \/ CallGenerateSummary
    \/ MutateNextSteps

SpecSummary == InitSummary /\ [][NextSummary]_vars

\* C20: over any sequence of generateSummary calls and mutations of the
\* next_steps arrays returned earlier, the static next_steps of every
\* recommendation keeps its three steps, every array handed out is a new
\* one, and each call returns exactly the three steps of its
\* recommendation.
C20_NextStepsFresh ==
    /\ \A i \in 1..Len(Verdicts) :
          heap[i] = VERDICT_CONFIG[Verdicts[i]].next_steps
    /\ \A k \in 1..Len(args) :
          /\ args[k].ref > Len(Verdicts)
          /\ \A j \in 1..Len(args) : j # k => args[j].ref # args[k].ref
    /\ op = "generateSummary" =>
          /\ Len(result.value.next_steps) = 3
          /\ result.value.next_steps
               = VERDICT_CONFIG[result.recommendation].next_steps

\* C20 witness: a second call for a recommendation whose first returned
\* array the caller has changed, returning the three steps all the same.
C20_Witness ==
    /\ op = "generateSummary"
    /\ Len(args) = 2
    /\ args[1].recommendation = args[2].recommendation
    /\ heap[args[1].ref] # VERDICT_CONFIG[args[1].recommendation].next_steps
    /\ result.ref = args[2].ref
    /\ result.value.next_steps
         = VERDICT_CONFIG[args[2].recommendation].next_steps

----------------------------------------------------------------------------
(* generateSummary on lists of checks and red flags: the key factors. args
   holds the checks and the red flags of the call. *)

MaxFactorFlags == 3

\* checks with and without an entry in CHECK_MESSAGES
FactorChecks ==
    { Tier1Check("overhead_ratio", "PASS", "80% expense ratio", 20),
      Tier1Check("recent_990", "FAIL", "No 990 on file", 20),
      Tier1Check("custom_check", "REVIEW", "Custom detail", 10) }

FactorCheckLists == SeqsUpTo(FactorChecks, 1)

\* flags of the table, twice the same type, and flags of a type without
\* an entry, whose detail is the message
FactorFlags ==
    { RedFlag("HIGH", "stale_990", "Most recent 990 is 5.0 years old"),
      RedFlag("MEDIUM", "stale_990", "Second stale flag"),
      RedFlag("HIGH", "no_990_on_file", "No 990 filings on record"),
      RedFlag("MEDIUM", "low_fund_deployment", "Low ratio"),
      RedFlag("MEDIUM", "unknown_flag_type", "expense-to-revenue ratio"),
      RedFlag("LOW", "unknown_flag_type", "(HIGH)"),
      RedFlag("MEDIUM", "unknown_flag_type", "") }

FactorFlagLists == SeqsUpTo(FactorFlags, MaxFactorFlags)

InitKeyFactors ==
    /\ pc = "ready"
    /\ op = "none"
    /\ thresholds = DefaultThresholds
    /\ profile = BaseProfile
    /\ filings = <<>>
    /\ now = DaysFromCivil(2026, 11, 1)
    /\ \E checks \in FactorCheckLists, redFlags \in FactorFlagLists :
          args = [checks |-> checks, redFlags |-> redFlags]
    /\ result = NoCall
    /\ heap = LoadedArrays

\* generateSummary(name, score, recommendation, checks, redFlags, years)
CallGenerateSummaryOfFlags ==
    /\ pc = "ready"
    /\ \E recommendation \in {"REVIEW", "REJECT"} :
          LET summary == generateSummary(profile.name, 60, recommendation,
                                         args.checks, args.redFlags,
                                         profile.years_operating)
              copy == SpreadCopy(heap, TemplateRef(recommendation))
          IN  /\ heap' = copy.arrays
              /\ result' = [kind |-> "summary",
                            recommendation |-> recommendation,
                            ref |-> copy.ref,
                            value |-> summary]
    /\ pc' = "done"
    /\ op' = "generateSummary"
    /\ UNCHANGED <<thresholds, profile, filings, now, args>>

NextKeyFactors == CallGenerateSummaryOfFlags

SpecKeyFactors == InitKeyFactors /\ [][NextKeyFactors]_vars

\* the text a flag contributes
FlagMessage(flag) ==
    IF flag.type \in DOMAIN RED_FLAG_FACTORS
    THEN RED_FLAG_FACTORS[flag.type] ELSE flag.detail

\* the line number i of the flags would get in key_factors when exactly
\* the flags numbered in keep get a line, after n lines of checks
LineOf(n, keep, i) == n + Cardinality({j \in keep : j <= i})

\* C23 as stated: key_factors is the lines of the checks followed by one
\* line for every flag whose message is in no line of the checks; flags
\* never suppress each other.
C23_AsStated ==
    Called("generateSummary") =>
        LET fromChecks == CheckFactors(args.checks)
            flags == args.redFlags
            keep == {i \in 1..Len(flags) :
                        ~\E k \in 1..Len(fromChecks) :
                            Includes(fromChecks[k], FlagMessage(flags[i]))}
            kf == result.value.key_factors
        IN  /\ Len(kf) = Len(fromChecks) + Cardinality(keep)
            /\ SubSeq(kf, 1, Len(fromChecks)) = fromChecks
            /\ \A i \in keep :
                  kf[LineOf(Len(fromChecks), keep, i)]
                    = "- " \o FlagMessage(flags[i]) \o " ("
                        \o flags[i].severity \o ")"

\* C23: key_factors is the lines of the checks followed by the lines of
\* the flags that are kept, in flag order, each "- <message> (<severity>)";
\* a flag is kept exactly when its message is in none of the lines that
\* precede it in key_factors, whether they come from checks or from
\* earlier flags. So of several flags with one message only the first has
\* a line.
C23_KeyFactors ==
    Called("generateSummary") =>
        LET fromChecks == CheckFactors(args.checks)
            n == Len(fromChecks)
            flags == args.redFlags
            kf == result.value.key_factors
        IN  /\ SubSeq(kf, 1, n) = fromChecks
            /\ \E keep \in SUBSET (1..Len(flags)) :
                  /\ Len(kf) = n + Cardinality(keep)
                  /\ \A i \in keep :
                        kf[LineOf(n, keep, i)]
                          = "- " \o FlagMessage(flags[i]) \o " ("
                              \o flags[i].severity \o ")"
                  /\ \A i \in 1..Len(flags) :
                        i \in keep <=>
                          ~\E k \in 1..LineOf(n, keep, i - 1) :
                              Includes(kf[k], FlagMessage(flags[i]))
            /\ \A i, j \in 1..Len(flags) :
                  (i < j /\ FlagMessage(flags[i]) = FlagMessage(flags[j]))
                    => Cardinality({k \in 1..Len(kf) :
                                      kf[k] = "- " \o FlagMessage(flags[j]) \o " ("
                                                \o flags[j].severity \o ")"}) <= 1

\* C23 witness: two flags of type stale_990 after a check, and only the
\* first of them has a line.
C23_Witness ==
    /\ Called("generateSummary")
    /\ Len(args.checks) = 1
    /\ Len(args.redFlags) = 2
    /\ args.redFlags[1].type = "stale_990"
    /\ args.redFlags[2].type = "stale_990"
    /\ args.redFlags[1].severity # args.redFlags[2].severity
    /\ Len(result.value.key_factors) = 2
    /\ result.value.key_factors[2]
         = "- Financial data is severely outdated ("
             \o args.redFlags[1].severity \o ")"

----------------------------------------------------------------------------
(* review_reasons of runTier1Checks *)

\* the positions of a list that satisfy a test, and the rank of a
\* position among them
NonPassing(checks) == {i \in 1..Len(checks) : checks[i].result # "PASS"}

HighFlags(flags) == {j \in 1..Len(flags) : flags[j].severity = "HIGH"}

RankIn(S, i) == Cardinality({k \in S : k <= i})

\* C24: review_reasons of runTier1Checks is the detail of every check that
\* is not PASS, in check order, followed by "RED FLAG: " and the detail of
\* every HIGH flag, in flag order, and nothing else; it is empty exactly
\* when the five checks are PASS and no flag is HIGH.
C24_ReviewReasons ==
    Called("runTier1Checks") =>
        LET r == result.value
            reasons == r.review_reasons
            np == NonPassing(r.checks)
            hi == HighFlags(r.red_flags)
        IN  /\ Len(reasons) = Cardinality(np) + Cardinality(hi)
            /\ \A i \in np : reasons[RankIn(np, i)] = <<r.checks[i].detail>>
            /\ \A j \in hi :
                  reasons[Cardinality(np) + RankIn(hi, j)]
                    = <<"RED FLAG: ", r.red_flags[j].detail>>
            /\ (reasons = <<>>) <=>
                  /\ Len(r.checks) = 5
                  /\ \A i \in 1..5 : r.checks[i].result = "PASS"
                  /\ ~HasHigh(r.red_flags)

\* C24 witness: a result with a check that is not PASS, a HIGH flag and a
\* MEDIUM flag, the last one without a reason.
C24_Witness ==
    /\ Called("runTier1Checks")
    /\ NonPassing(result.value.checks) # {}
    /\ HighFlags(result.value.red_flags) # {}
    /\ \E j \in 1..Len(result.value.red_flags) :
          result.value.red_flags[j].severity = "MEDIUM"
    /\ Len(result.value.review_reasons)
         = Cardinality(NonPassing(result.value.checks))
           + Cardinality(HighFlags(result.value.red_flags))
    /\ Len(result.value.review_reasons) < Len(result.value.checks)
                                            + Len(result.value.red_flags)

----------------------------------------------------------------------------
(* runTier1Checks under the default thresholds, on profiles around the
   FAIL boundaries of each check *)

\* tax periods 1, 3.4 and 11.4 years before the clock values; revenue
\* below revenueFailMin, between the two minima and in range; ratios below
\* expenseRatioLowReview, between the two minima, in range and above
\* expenseRatioHighReview
DefaultSummaries ==
    { Merge(Base990, [tax_period |-> tp, total_revenue |-> Num(rev),
                      overhead_ratio |-> Num(ratio)]) :
        tp \in { Str(<<Digits(2025), Digits(11)>>),
                 Str(<<Digits(2023), Digits(6)>>),
                 Str(<<Digits(2015), Digits(6)>>) },
        rev \in {30000, 75000, 500000},
        ratio \in {30, 60, 80, 130} }

DefaultProfiles ==
    { Merge(BaseProfile,
            [subsection |-> c, years_operating |-> Num(y), latest_990 |-> s]) :
        c \in {"03", "04"}, y \in {-1, 0, 2, 15}, s \in DefaultSummaries }

InitDefaults ==
    /\ pc = "ready"
    /\ op = "none"
    /\ thresholds = DefaultThresholds
    /\ profile \in DefaultProfiles
    /\ filings \in { <<makeFiling(202512, 500000)>>,
                     <<makeFiling(202512, 200000), makeFiling(202412, 500000)>> }
    /\ now \in NowDays
    /\ args = NullV
    /\ result = NoCall
    /\ heap = LoadedArrays

SpecDefaults == InitDefaults /\ [][NextTier1]_vars

\* the checks of a result with a given outcome
ChecksWith(r, outcome) ==
    {i \in 1..Len(r.checks) : r.checks[i].result = outcome}

\* C29 as stated: under the default thresholds a PASS recommendation has
\* no FAIL check.
C29_AsStated ==
    (Called("runTier1Checks") /\ result.value.recommendation = "PASS")
        => ChecksWith(result.value, "FAIL") = {}

\* C29: under the default thresholds a PASS recommendation has a score of
\* at least scorePassMin and no HIGH flag, its 501c3_status check is PASS,
\* and at most one check is FAIL; when one is, the other four are PASS.
C29_PassAllowsOneFail ==
    (Called("runTier1Checks") /\ result.value.recommendation = "PASS")
        => LET r == result.value
           IN  /\ r.score >= thresholds.scorePassMin
               /\ ~HasHigh(r.red_flags)
               /\ r.checks[1].name = "501c3_status"
               /\ r.checks[1].result = "PASS"
               /\ Cardinality(ChecksWith(r, "FAIL")) <= 1
               /\ ChecksWith(r, "FAIL") # {}
                     => Cardinality(ChecksWith(r, "PASS")) = 4

\* C29 witness: PASS with a score of 85 for a profile whose most recent
\* filing is older than filing990ReviewMax (recent_990 is FAIL) and not
\* older than redFlagStale990Years.
C29_Witness ==
    /\ Called("runTier1Checks")
    /\ thresholds = DefaultThresholds
    /\ result.value.recommendation = "PASS"
    /\ result.value.score = 85
    /\ result.value.checks[5].name = "recent_990"
    /\ result.value.checks[5].result = "FAIL"
    /\ result.value.red_flags = <<>>

----------------------------------------------------------------------------
(* runTier1Checks and then runRedFlagCheck on the same profile, filings and
   thresholds. Both read the clock themselves; a day may pass between the
   two calls. After the first call args holds the clock value it read;
   after the second, also the result of the first. *)

InitBoth ==
    /\ pc = "ready"
    /\ op = "none"
    /\ thresholds \in RedFlagBases
    /\ profile \in Tier1Profiles
    /\ filings \in FilingLists
    /\ now \in NowDays
    /\ args = NullV
    /\ result = NoCall
    /\ heap = LoadedArrays

CallRunTier1ChecksFirst ==
    /\ pc = "ready"
    /\ LET r == runTier1Checks(profile, filings, thresholds, now)
       IN  /\ result' = [kind |-> "tier1", value |-> r]
           /\ heap' = SpreadCopy(heap, TemplateRef(r.recommendation)).arrays
    /\ args' = [now |-> now]
    /\ pc' = "tier1 returned"
    /\ op' = "runTier1Checks"
    /\ UNCHANGED <<thresholds, profile, filings, now>>

\* the clock moves on between the two calls
ClockAdvances ==
    /\ pc = "tier1 returned"
    /\ \E later \in NowDays : later > now /\ now' = later
    /\ UNCHANGED <<pc, op, thresholds, profile, filings, args, result, heap>>

CallRunRedFlagCheckSecond ==
    /\ pc = "tier1 returned"
    /\ result' = [kind |-> "redflags",
                  value |-> runRedFlagCheck(profile, filings, thresholds, now)]
    /\ args' = [now |-> args.now, tier1 |-> result.value]
    /\ pc' = "done"
    /\ op' = "runRedFlagCheck"
    /\ UNCHANGED <<heap, thresholds, profile, filings, now>>

NextBoth ==
    \/ CallRunTier1ChecksFirst
    \/ ClockAdvances
    \/ CallRunRedFlagCheckSecond

SpecBoth == InitBoth /\ [][NextBoth]_vars

\* the recommendation a score gets when no flag is looked at
ScoreAlone(score, t) ==
    IF score >= t.scorePassMin THEN "PASS"
    ELSE IF score >= t.scoreReviewMin THEN "REVIEW"
    ELSE "REJECT"

\* C28 as stated: for the same profile, filings and thresholds the flags
\* of runRedFlagCheck are the red_flags of runTier1Checks, whenever the two
\* calls are made.
C28_AsStated ==
    Called("runRedFlagCheck") =>
        /\ result.value.flags = args.tier1.red_flags
        /\ result.value.clean <=> (args.tier1.red_flags = <<>>)

\* C28: runRedFlagCheck's clean is true exactly when its flag list is
\* empty; and when both calls read the same clock value, its flags are the
\* red_flags of runTier1Checks, in the same order, so that clean implies
\* that the recommendation of runTier1Checks is the one its score alone
\* gives.
C28_SameFlags ==
    Called("runRedFlagCheck") =>
        /\ result.value.clean <=> (result.value.flags = <<>>)
        /\ args.now = now =>
              /\ result.value.flags = args.tier1.red_flags
              /\ result.value.clean =>
                    args.tier1.recommendation
                      = ScoreAlone(args.tier1.score, thresholds)

\* C28 witness: the two calls at one clock value, two flags (MEDIUM and
\* HIGH) returned by both in the same order.
C28_Witness ==
    /\ Called("runRedFlagCheck")
    /\ args.now = now
    /\ Len(result.value.flags) >= 2
    /\ result.value.flags[1].severity # result.value.flags[2].severity
    /\ result.value.flags = args.tier1.red_flags
    /\ ~result.value.clean

----------------------------------------------------------------------------
(* Startup and requests. The server module imports the sector module,
   whose top-level loop validates every table entry merged onto
   loadThresholds(); then loadConfig() validates the loaded thresholds;
   then requests are served with them. checkTier1 and getRedFlags are
   exported too, and a caller of its own (the tests) passes the thresholds
   it likes. thresholds is the value of loadThresholds(); args counts the
   validateThresholds calls made so far. *)

\* Object.entries(SECTOR_OVERRIDES): the entries in the order written
SectorEntries == <<"K", "A", "E">>

\* variant: only the first entry is validated
SectorLoopFirstOnly(base) ==
    LET ok == Accepted(Merge(base, SECTOR_OVERRIDES[SectorEntries[1]]))
    IN  [threw |-> ~ok, validated |-> 1]

\* the loop at the end of the sector module: the number of entries
\* validated before it ends, and whether it ended by a throw
SectorLoop(base) ==
    LET bad == {i \in 1..Len(SectorEntries) :
                  ~Accepted(Merge(base, SECTOR_OVERRIDES[SectorEntries[i]]))}
    IN  IF bad = {}
        THEN [threw |-> FALSE, validated |-> Len(SectorEntries)]
        ELSE [threw |-> TRUE,
              validated |-> CHOOSE i \in bad : \A j \in bad : i <= j]

\* loadThresholds() under environments that set a few variables: values
\* that are valid alone and with every entry, valid alone but not with an
\* entry, and not valid alone
EnvOverrides ==
    { [revenueReviewMax |-> 60000000],
      [revenueFailMin |-> 0, revenuePassMin |-> 30000],
      [revenueFailMin |-> 10000, revenuePassMin |-> 30000,
       revenuePassMax |-> 40000],
      [revenuePassMax |-> 200000000, revenueReviewMax |-> 200000000],
      [expenseRatioLowReview |-> 65],
      [expenseRatioPassMax |-> 140, expenseRatioHighReview |-> 160],
      [expenseRatioPassMin |-> 50, expenseRatioLowReview |-> 50],
      [scorePassMin |-> 60, scoreReviewMin |-> 20],
      [yearsReviewMin |-> 5],
      [weight501c3Status |-> 50] }

EnvBases ==
    {DefaultThresholds} \cup {Merge(DefaultThresholds, o) : o \in EnvOverrides}

\* makeThresholds(overrides) of a direct caller: valid configurations
CallerBases == { t \in EnvBases \cup ResolveBases : Accepted(t) }

InitStartup ==
    /\ pc = "importing"
    /\ op = "none"
    /\ thresholds \in EnvBases
    /\ profile = BaseProfile
    /\ filings = <<>>
    /\ now = DaysFromCivil(2026, 11, 1)
    /\ args = 0
    /\ result = NoCall
    /\ heap = LoadedArrays

\* import of the sector module: its top-level validation loop
LoadSectorModule ==
    /\ pc = "importing"
    /\ LET loop == SectorLoop(thresholds)
       IN  /\ args' = args + loop.validated
           /\ pc' = IF loop.threw THEN "startup failed" ELSE "loading config"
    /\ op' = "loadSectorModule"
    /\ UNCHANGED <<heap, thresholds, profile, filings, now, result>>

\* const config = loadConfig()
LoadConfig ==
    /\ pc = "loading config"
    /\ args' = args + 1
    /\ pc' = IF validateThresholds(thresholds).threw
             THEN "startup failed" ELSE "serving"
    /\ op' = "loadConfig"
    /\ UNCHANGED <<heap, thresholds, profile, filings, now, result>>

\* a request to the server: resolveThresholds(thresholds, profile.ntee_code)
ServeRequest ==
    /\ pc = "serving"
    /\ \E code \in ResolveCodes :
          result' = [kind |-> "thresholds", caller |-> "server", code |-> code,
                     value |-> resolveThresholds(thresholds, code)]
    /\ op' = "resolveThresholds"
    /\ UNCHANGED <<heap, pc, thresholds, profile, filings, now, args>>

\* checkTier1(client, input, t) called directly with thresholds t
CallWithOwnThresholds ==
    /\ pc = "serving"
    /\ \E t \in CallerBases, code \in ResolveCodes :
          result' = [kind |-> "thresholds", caller |-> "direct", code |-> code,
                     value |-> resolveThresholds(t, code)]
    /\ op' = "resolveThresholds"
    /\ UNCHANGED <<heap, pc, thresholds, profile, filings, now, args>>

NextStartup ==
    \/ LoadSectorModule
    \/ LoadConfig
    \/ ServeRequest
    \/ CallWithOwnThresholds

SpecStartup == InitStartup /\ [][NextStartup]_vars

\* C25: every entry of the table merged onto the default thresholds
\* passes validateThresholds; the entries are validated when the sector
\* module is loaded, merged onto the loaded thresholds, and startup fails
\* exactly when one of them is invalid; once requests are served no
\* further validation is made, and resolveThresholds returns a
\* configuration for every request.
C25_TableValidatedAtLoad ==
    /\ \A k \in DOMAIN SECTOR_OVERRIDES :
          Accepted(Merge(DefaultThresholds, SECTOR_OVERRIDES[k]))
    /\ DOMAIN SECTOR_OVERRIDES = {SectorEntries[i] : i \in 1..Len(SectorEntries)}
    /\ pc \in {"loading config", "serving"} =>
          \A k \in DOMAIN SECTOR_OVERRIDES :
              Accepted(Merge(thresholds, SECTOR_OVERRIDES[k]))
    /\ (pc = "startup failed" /\ op = "loadSectorModule") =>
          \E k \in DOMAIN SECTOR_OVERRIDES :
              ~Accepted(Merge(thresholds, SECTOR_OVERRIDES[k]))
    /\ (\E k \in DOMAIN SECTOR_OVERRIDES :
            ~Accepted(Merge(thresholds, SECTOR_OVERRIDES[k])))
          => pc \in {"importing", "startup failed"}
    /\ pc = "serving" =>
          /\ args = Len(SectorEntries) + 1
          /\ op = "resolveThresholds" => result.kind = "thresholds"

\* C25 witness: a request for a health-sector code served after a startup
\* under the default thresholds, four validations made in all.
C25_Witness ==
    /\ pc = "serving"
    /\ op = "resolveThresholds"
    /\ thresholds = DefaultThresholds
    /\ result.caller = "server"
    /\ result.code = <<"E", "2", "0">>
    /\ result.value.fresh
    /\ args = 4

\* C30 as stated: whenever the base passes validateThresholds, so does
\* the configuration resolveThresholds returns.
C30_AsStated ==
    (pc = "serving" /\ op = "resolveThresholds"
       /\ Accepted(result.value.base))
        => Accepted(result.value.value)

\* C30: for the thresholds loaded at startup, which are the base of every
\* request the server makes, resolveThresholds returns a configuration
\* that passes validateThresholds for every sector code; for any valid
\* base, the configuration returned for a code without a table entry
\* passes as well, being the base itself.
C30_ResolvedValidForLoadedBase ==
    (pc = "serving" /\ op = "resolveThresholds") =>
        /\ result.caller = "server" =>
              /\ result.value.base = thresholds
              /\ Accepted(result.value.value)
        /\ (~result.value.fresh /\ Accepted(result.value.base))
              => Accepted(result.value.value)

\* C30 witness: the server started with thresholds other than the
\* defaults resolves an arts code to a new, valid configuration.
C30_Witness ==
    /\ pc = "serving"
    /\ op = "resolveThresholds"
    /\ thresholds # DefaultThresholds
    /\ result.caller = "server"
    /\ result.code = <<"a">>
    /\ result.value.fresh
    /\ result.value.value # thresholds
    /\ Accepted(result.value.value)

----------------------------------------------------------------------------
(* The data client (propublica-client.ts: RateLimiter, ProPublicaClient)
   and the tools that look an organization up by its EIN (tools.ts).

   The callers are numbered 1..Len(args): args[c] is the call caller c
   makes (with the answers the server may give to it), pc[c] its position
   and result[c] what it got. heap is the client
   object: its rate limiter (chain, lastTime and the timer of the link
   that sleeps), the requests that are executing, and the record of what
   was called, released and requested. now is Date.now() in clock ticks
   counted within the day Today; profile and filings are what buildProfile
   makes of a response that has an organization. *)

\* delayMs, in clock ticks
DelayMs == 2

\* the number of concurrent callers of the rate-limiter harness
MaxCallers == 3

\* calls are made during the first MaxCallTicks ticks
MaxCallTicks == 2

\* Date.now() when the client is constructed: far from the initial
\* lastTime of 0
StartTime == DelayMs

LastCallTime == StartTime + MaxCallTicks

\* every link ends by then: each sleeps DelayMs at most
MaxNow == LastCallTime + MaxCallers * DelayMs

Today == DaysFromCivil(2026, 11, 1)

ATTRIBUTION ==
    "Data provided by ProPublica Nonprofit Explorer (https://projects.propublica.org/nonprofits/)"

\* new RateLimiter(delayMs) inside new ProPublicaClient(config), for n
\* callers
NewClient(n) ==
    [ chain |-> <<>>,        \* callers whose link has not ended, in chain order
      link |-> "pending",    \* the first link: not started yet, or "sleeping"
      due |-> 0,             \* when the sleeping link's timer is due
      lastTime |-> 0,
      inFlight |-> {},       \* callers whose HTTP request is executing
      called |-> <<>>,       \* callers in the order of their waitIfNeeded calls
      released |-> <<>>,     \* [caller, at]: the links that ended, in order
      requests |-> [c \in 1..n |-> <<>>] ]   \* the GETs each caller issued

\* waitIfNeeded(): this.chain = this.chain.then(link)
waitIfNeeded(client, c) ==
    [client EXCEPT !.chain = Append(client.chain, c),
                   !.called = Append(client.called, c)]

\* variant: the time already elapsed is waited, not the time that remains
WaitTimeElapsed(elapsed) == elapsed

\* waitTime = this.delayMs - elapsed
WaitTime(elapsed) == DelayMs - elapsed

\* the end of a link: this.lastTime = Date.now(), and the promise the
\* first caller of the chain waits for is resolved
EndLink(client, clock) ==
    [client EXCEPT !.lastTime = clock,
                   !.chain = Tail(client.chain),
                   !.link = "pending",
                   !.released = Append(client.released,
                                       [caller |-> Head(client.chain),
                                        at |-> clock])]

\* ein.replace(/[-\s]/g, "")
RECURSIVE RemoveDashesAndWhitespace(_)
RemoveDashesAndWhitespace(ein) ==
    IF ein = "" THEN ""
    ELSE LET ch == SubSeq(ein, 1, 1)
         IN  (IF ch \in {"-", " ", "\t", "\n"} THEN "" ELSE ch)
             \o RemoveDashesAndWhitespace(SubSeq(ein, 2, Len(ein)))

DigitChars == {"0", "1", "2", "3", "4", "5", "6", "7", "8", "9"}

\* variant: nine characters of any kind
IsNineDigitsAnyCharacter(text) == Len(text) = 9

\* /^\d{9}$/.test(text)
IsNineDigits(text) ==
    /\ Len(text) = 9
    /\ \A i \in 1..Len(text) : SubSeq(text, i, i) \in DigitChars

\* what an HTTP request ends with: a response with data, or an error with
\* or without a response
OrgDetail == [organization |-> TRUE]

NoOrganization == [organization |-> FALSE]

HttpOutcomes ==
    { [status |-> 200, data |-> OrgDetail, message |-> ""],
      [status |-> 200, data |-> NoOrganization, message |-> ""],
      [status |-> 404, data |-> NullV, message |-> "Request failed with status code 404"],
      [status |-> 500, data |-> NullV, message |-> "Request failed with status code 500"],
      [status |-> 0, data |-> NullV, message |-> "timeout of 30000ms exceeded"] }

ReturnedValue(value) == [kind |-> "returned", value |-> value]

ThrownError(message) == [kind |-> "thrown", message |-> message]

\* getOrganization after the GET: response.data, null on a 404, the error
\* thrown again otherwise
AfterGetOrganization(outcome) ==
    IF outcome.status = 200 THEN ReturnedValue(outcome.data)
    ELSE IF outcome.status = 404 THEN ReturnedValue(NullV)
    ELSE ThrownError(outcome.message)

\* search after the GET: the organizations, none on a 404, the error
\* thrown again otherwise
AfterSearch(outcome) ==
    IF outcome.status = 200 THEN ReturnedValue([total_results |-> 1])
    ELSE IF outcome.status = 404 THEN ReturnedValue([total_results |-> 0])
    ELSE ThrownError(outcome.message)

Tools == {"getNonprofitProfile", "checkTier1", "getRedFlags"}

\* fn(profile, filings) of each tool
ToolData(tool, p, fs, t, nowDay) ==
    CASE tool = "getNonprofitProfile" -> p
      [] tool = "checkTier1" ->
            runTier1Checks(p, fs, resolveThresholds(t, p.ntee_code).value, nowDay)
      [] tool = "getRedFlags" ->
            runRedFlagCheck(p, fs, resolveThresholds(t, p.ntee_code).value, nowDay)

ErrorResponse(error) ==
    [success |-> FALSE, error |-> error, attribution |-> ATTRIBUTION]

\* variant: the error responses without the attribution
withEinLookupBareErrors(tool, ein, outcome, p, fs, t, nowDay) ==
    IF outcome.kind = "thrown"
    THEN [success |-> FALSE, error |-> tool \o " failed: " \o outcome.message]
    ELSE IF outcome.value = NullV
    THEN [success |-> FALSE, error |-> "Organization not found with EIN: " \o ein]
    ELSE [success |-> TRUE, data |-> ToolData(tool, p, fs, t, nowDay),
          attribution |-> ATTRIBUTION]

\* withEinLookup from the end of client.getOrganization(ein) on: outcome
\* is what the client returned or threw; buildProfile throws a TypeError
\* on a response without an organization
withEinLookup(tool, ein, outcome, p, fs, t, nowDay) ==
    IF outcome.kind = "thrown"
    THEN ErrorResponse(tool \o " failed: " \o outcome.message)
    ELSE IF outcome.value = NullV
    THEN ErrorResponse("Organization not found with EIN: " \o ein)
    ELSE IF ~outcome.value.organization
    THEN ErrorResponse(tool \o " failed: "
                       \o "Cannot read properties of undefined (reading 'ruling_date')")
    ELSE [success |-> TRUE, data |-> ToolData(tool, p, fs, t, nowDay),
          attribution |-> ATTRIBUTION]

\* what caller c has when the client's promise is settled: how its HTTP
\* request ended (if it made one), the client's outcome and, for a tool,
\* the tool's response
Settled(c, http, outcome) ==
    [ http |-> http,
      client |-> outcome,
      tool |-> IF args[c].tool \in Tools
               THEN withEinLookup(args[c].tool, args[c].ein, outcome,
                                  profile, filings, thresholds, Today)
               ELSE NullV ]

\* a tool is called: withEinLookup up to its await. An empty EIN is
\* answered at once; otherwise client.getOrganization(ein) runs up to its
\* own await, which appends a link to the chain
CallTool(c) ==
    /\ pc[c] = "idle"
    /\ args[c].tool \in Tools
    /\ now <= LastCallTime
    /\ IF args[c].ein = ""
       THEN /\ result' = [result EXCEPT ![c] =
                            [http |-> NoCall,
                             client |-> NoCall,
                             tool |-> ErrorResponse("EIN parameter is required")]]
            /\ pc' = [pc EXCEPT ![c] = "returned"]
            /\ heap' = heap
       ELSE /\ heap' = waitIfNeeded(heap, c)
            /\ pc' = [pc EXCEPT ![c] = "waiting"]
            /\ result' = result
    /\ op' = "callTool"
    /\ UNCHANGED <<thresholds, profile, filings, now, args>>

\* client.search(...) or client.getOrganization(ein) called directly, up
\* to the await of waitIfNeeded
CallClient(c) ==
    /\ pc[c] = "idle"
    /\ args[c].tool \in {"search", "getOrganization"}
    /\ now <= LastCallTime
    /\ heap' = waitIfNeeded(heap, c)
    /\ pc' = [pc EXCEPT ![c] = "waiting"]
    /\ op' = "callClient"
    /\ UNCHANGED <<thresholds, profile, filings, now, args, result>>

\* the first link of the chain starts: it ends at once when delayMs has
\* elapsed since lastTime, and sets a timer otherwise
StartLink ==
    /\ heap.chain # <<>>
    /\ heap.link = "pending"
    /\ LET elapsed == now - heap.lastTime
       IN  IF elapsed < DelayMs
           THEN /\ heap' = [heap EXCEPT !.link = "sleeping",
                                        !.due = now + WaitTime(elapsed)]
                /\ pc' = pc
           ELSE /\ heap' = EndLink(heap, now)
                /\ pc' = [pc EXCEPT ![Head(heap.chain)] = "released"]
    /\ op' = "startLink"
    /\ UNCHANGED <<thresholds, profile, filings, now, args, result>>

\* the timer of the sleeping link fires and the link ends
TimerFires ==
    /\ heap.chain # <<>>
    /\ heap.link = "sleeping"
    /\ now >= heap.due
    /\ heap' = EndLink(heap, now)
    /\ pc' = [pc EXCEPT ![Head(heap.chain)] = "released"]
    /\ op' = "timerFires"
    /\ UNCHANGED <<thresholds, profile, filings, now, args, result>>

\* the caller goes on after the await: search issues its GET;
\* getOrganization normalizes and tests the EIN, and throws or issues its
\* GET
AfterWait(c) ==
    /\ pc[c] = "released"
    /\ LET normalizedEin == RemoveDashesAndWhitespace(args[c].ein)
           url == IF args[c].tool = "search" THEN "/search.json"
                  ELSE "/organizations/" \o normalizedEin \o ".json"
       IN  IF args[c].tool # "search" /\ ~IsNineDigits(normalizedEin)
           THEN /\ result' = [result EXCEPT ![c] =
                                Settled(c, NoCall,
                                        ThrownError("Invalid EIN format: expected 9 digits"))]
                /\ pc' = [pc EXCEPT ![c] = "returned"]
                /\ heap' = heap
           ELSE /\ heap' = [heap EXCEPT
                              !.inFlight = heap.inFlight \cup {c},
                              !.requests[c] = Append(heap.requests[c], url)]
                /\ pc' = [pc EXCEPT ![c] = "in flight"]
                /\ result' = result
    /\ op' = "afterWait"
    /\ UNCHANGED <<thresholds, profile, filings, now, args>>

\* the HTTP request of caller c ends, and the caller with it
Response(c) ==
    /\ pc[c] = "in flight"
    /\ \E outcome \in args[c].outcomes :
          result' = [result EXCEPT ![c] =
                       Settled(c, outcome,
                               IF args[c].tool = "search"
                               THEN AfterSearch(outcome)
                               ELSE AfterGetOrganization(outcome))]
    /\ heap' = [heap EXCEPT !.inFlight = heap.inFlight \ {c}]
    /\ pc' = [pc EXCEPT ![c] = "returned"]
    /\ op' = "response"
    /\ UNCHANGED <<thresholds, profile, filings, now, args>>

\* the clock moves on; a link that can start or a timer that is due comes
\* first
Tick ==
    /\ now < MaxNow
    /\ ~(heap.chain # <<>> /\ heap.link = "pending")
    /\ ~(heap.chain # <<>> /\ heap.link = "sleeping" /\ now >= heap.due)
    /\ now' = now + 1
    /\ op' = "tick"
    /\ UNCHANGED <<pc, thresholds, profile, filings, args, result, heap>>

\* concurrent callers of one client; outcomes is what the server may
\* answer to the call
LimiterCalls ==
    { [tool |-> "search", ein |-> "",
       outcomes |-> {o \in HttpOutcomes : o.status = 200 /\ o.data = OrgDetail}],
      [tool |-> "getOrganization", ein |-> "12-3456789",
       outcomes |-> {o \in HttpOutcomes : o.status = 404}] }

\* all callers search, or searches and lookups alternate
LimiterArgs ==
    { [c \in 1..MaxCallers |->
         CHOOSE call \in LimiterCalls :
             call.tool = IF c % 2 = k THEN "getOrganization" ELSE "search"] :
        k \in {1, 2} }

InitLimiter ==
    /\ args \in LimiterArgs
    /\ pc = [c \in 1..MaxCallers |-> "idle"]
    /\ result = [c \in 1..MaxCallers |-> NoCall]
    /\ op = "none"
    /\ thresholds = DefaultThresholds
    /\ profile = BaseProfile
    /\ filings = <<>>
    /\ now = StartTime
    /\ heap = NewClient(MaxCallers)

NextLimiter ==
    \/ \E c \in DOMAIN pc : CallClient(c)
    \/ StartLink
    \/ TimerFires
    \/ \E c \in DOMAIN pc : AfterWait(c)
    \/ \E c \in DOMAIN pc : Response(c)
    \/ Tick

SpecLimiter == InitLimiter /\ [][NextLimiter]_vars

\* timers fire, microtasks run, the clock goes on
SpecLimiterFair ==
    /\ SpecLimiter
    /\ WF_vars(StartLink)
    /\ WF_vars(TimerFires)
    /\ WF_vars(Tick)

\* One caller of a tool or of getOrganization, alone or beside a search.

\* EINs: none, dashed, plain, with whitespace, with two dashes; too short,
\* too long, with a letter, a path, only dashes
Eins ==
    { "", "12-3456789", "123456789", " 12 345-6789\t", "12-3456-789",
      "12345678", "1234567890", "12-34567a9", "../secret", "--" }

ToolCalls ==
    { [tool |-> tool, ein |-> ein, outcomes |-> HttpOutcomes] :
        tool \in Tools \cup {"getOrganization"}, ein \in Eins }

InitTools ==
    /\ \E call \in ToolCalls :
          args \in { <<call>>,
                     <<call, CHOOSE other \in LimiterCalls : other.tool = "search">>,
                     <<CHOOSE other \in LimiterCalls : other.tool = "search", call>> }
    /\ pc = [c \in DOMAIN args |-> "idle"]
    /\ result = [c \in DOMAIN args |-> NoCall]
    /\ op = "none"
    /\ thresholds = DefaultThresholds
    /\ profile = Merge(BaseProfile, [ntee_code |-> <<"K", "3", "1">>])
    /\ filings = <<makeFiling(202512, 500000)>>
    /\ now = StartTime
    /\ heap = NewClient(Len(args))

NextTools ==
    \/ \E c \in DOMAIN pc : CallTool(c)
    \/ \E c \in DOMAIN pc : CallClient(c)
    \/ StartLink
    \/ TimerFires
    \/ \E c \in DOMAIN pc : AfterWait(c)
    \/ \E c \in DOMAIN pc : Response(c)
    \/ Tick

SpecTools == InitTools /\ [][NextTools]_vars

\* the positions of an EIN that hold neither a dash nor whitespace, and
\* the k-th of them
KeptPositions(ein) ==
    {i \in 1..Len(ein) : SubSeq(ein, i, i) \notin {"-", " ", "\t", "\n"}}

KeptPosition(ein, k) ==
    CHOOSE i \in KeptPositions(ein) :
        Cardinality({j \in KeptPositions(ein) : j <= i}) = k

NineDigitsRemain(ein) ==
    /\ Cardinality(KeptPositions(ein)) = 9
    /\ \A i \in KeptPositions(ein) : SubSeq(ein, i, i) \in DigitChars

\* url is /organizations/<the nine characters kept of ein>.json
UrlOfEin(url, ein) ==
    /\ Len(url) = 29
    /\ SubSeq(url, 1, 15) = "/organizations/"
    /\ SubSeq(url, 25, 29) = ".json"
    /\ \A k \in 1..9 :
          SubSeq(url, 15 + k, 15 + k)
            = SubSeq(ein, KeptPosition(ein, k), KeptPosition(ein, k))

\* the callers whose call reaches client.getOrganization
Lookups ==
    {c \in DOMAIN args :
        \/ args[c].tool = "getOrganization"
        \/ args[c].tool \in Tools /\ args[c].ein # ""}

\* C21: a tool always ends with a response that carries the attribution.
\* An empty EIN gives success = false with a "required" error and no call
\* of the client; null from the client gives success = false with a "not
\* found" error; a failure of the client gives success = false with the
\* failure's message; success = true comes with data and only when the
\* client returned an organization.
C21_ToolResponses ==
    \A c \in DOMAIN args :
        args[c].tool \in Tools =>
            /\ args[c].ein = "" =>
                  /\ \A i \in 1..Len(heap.called) : heap.called[i] # c
                  /\ heap.requests[c] = <<>>
                  /\ pc[c] \in {"idle", "returned"}
            /\ pc[c] = "returned" =>
                  LET response == result[c].tool
                      outcome == result[c].client
                  IN  /\ "attribution" \in DOMAIN response
                      /\ response.attribution = ATTRIBUTION
                      /\ response.success \in BOOLEAN
                      /\ ~response.success => "data" \notin DOMAIN response
                      /\ args[c].ein = "" =>
                            /\ ~response.success
                            /\ Includes(response.error, "required")
                      /\ (outcome.kind = "returned" /\ outcome.value = NullV) =>
                            /\ ~response.success
                            /\ Includes(response.error, "not found")
                      /\ outcome.kind = "thrown" =>
                            /\ ~response.success
                            /\ Includes(response.error, outcome.message)
                      /\ response.success =>
                            /\ outcome.kind = "returned"
                            /\ outcome.value = OrgDetail
                            /\ "data" \in DOMAIN response
                            /\ "error" \notin DOMAIN response

\* C21 witness: checkTier1 for a dashed EIN answered with the result of
\* the checks, after the client returned an organization.
C21_Witness ==
    \E c \in DOMAIN args :
        /\ args[c].tool = "checkTier1"
        /\ args[c].ein = "12-3456789"
        /\ pc[c] = "returned"
        /\ result[c].client = ReturnedValue(OrgDetail)
        /\ result[c].tool.success
        /\ result[c].tool.data.recommendation \in {"PASS", "REVIEW", "REJECT"}
        /\ result[c].tool.attribution = ATTRIBUTION

\* C22: when nine digits do not remain of the EIN after its dashes and
\* whitespace are removed, getOrganization issues no request and rejects
\* with "Invalid EIN format"; when they do, it issues one GET, to
\* /organizations/<the nine digits>.json, and returns the response data on
\* success, null on a 404, and throws the error again otherwise.
C22_GetOrganization ==
    \A c \in Lookups :
        IF ~NineDigitsRemain(args[c].ein)
        THEN /\ heap.requests[c] = <<>>
             /\ pc[c] # "in flight"
             /\ pc[c] = "returned" =>
                   /\ result[c].client.kind = "thrown"
                   /\ Includes(result[c].client.message, "Invalid EIN format")
        ELSE /\ Len(heap.requests[c]) <= 1
             /\ pc[c] \in {"in flight", "returned"} =>
                   /\ Len(heap.requests[c]) = 1
                   /\ UrlOfEin(heap.requests[c][1], args[c].ein)
             /\ pc[c] \in {"idle", "waiting", "released"} =>
                   heap.requests[c] = <<>>
             /\ pc[c] = "returned" =>
                   LET http == result[c].http
                       outcome == result[c].client
                   IN  /\ http \in HttpOutcomes
                       /\ http.status = 200 =>
                             outcome = [kind |-> "returned", value |-> http.data]
                       /\ http.status = 404 =>
                             outcome = [kind |-> "returned", value |-> NullV]
                       /\ http.status \notin {200, 404} =>
                             outcome = [kind |-> "thrown", message |-> http.message]

\* C22 witness: an EIN with whitespace and a dash, one GET to
\* /organizations/123456789.json answered 404, null returned.
C22_Witness ==
    \E c \in Lookups :
        /\ args[c].ein = " 12 345-6789\t"
        /\ pc[c] = "returned"
        /\ heap.requests[c] = <<"/organizations/123456789.json">>
        /\ result[c].http.status = 404
        /\ result[c].client = [kind |-> "returned", value |-> NullV]

\* C26 as stated: at most one HTTP request of the client is executing at
\* any time.
C26_AsStated == Cardinality(heap.inFlight) <= 1

\* the links released so far are the first calls, in call order, each
\* once, and the clock values of two successive releases are at least
\* DelayMs apart
ReleasedInOrder ==
    /\ Len(heap.released) + Len(heap.chain) = Len(heap.called)
    /\ \A i \in 1..Len(heap.released) :
          heap.released[i].caller = heap.called[i]
    /\ \A i \in 1..Len(heap.chain) :
          heap.chain[i] = heap.called[Len(heap.released) + i]
    /\ \A i \in 2..Len(heap.released) :
          heap.released[i].at - heap.released[i - 1].at >= DelayMs

\* C27: waitIfNeeded releases its callers in the order of their calls, one
\* at a time, each at least DelayMs of clock time after the one before,
\* and every caller that waits is released in the end.
C27_FifoSpacedLive ==
    /\ []ReleasedInOrder
    /\ \A c \in 1..MaxCallers : (pc[c] = "waiting") ~> (pc[c] # "waiting")

\* C27 witness: all callers released, not in the order of their numbers;
\* the second exactly DelayMs after the first, which had not to wait.
C27_Witness ==
    /\ Len(heap.released) = MaxCallers
    /\ heap.called[1] # 1
    /\ heap.released[1].caller = heap.called[1]
    /\ heap.released[2].at - heap.released[1].at = DelayMs
    /\ \A c \in 1..MaxCallers : pc[c] # "waiting"

====
